---------------------------- MODULE Spec2Model ----------------------------
(***************************************************************************)
(* The resume parser of src/Articles-pod.py (lines 975-1163): the field    *)
(* extractors, the record assembled by parse_resume, the regular           *)
(* expressions they apply, the decoding of the file that comes before, and *)
(* the two callers that show the record: main (line 1128) and the          *)
(* dashboard's resume_parser_ui (src/app.py, line 360).  After it, five    *)
(* other tools of the repository, each with a state of its own: the        *)
(* dashboard's QR generator, get_chrome_history, extract_video_id,         *)
(* format_table with its two callers, and extract_dependencies.            *)
(*                                                                         *)
(* A text is a sequence of one-character strings.  Optional[str] is a      *)
(* sequence of at most one text: None is <<>> and a present value s is     *)
(* <<s>>.  Positions are 1-based; a span [s, e) covers text[s] .. text[e-1].*)
(* The model's alphabet is ASCII: for it str.lower, str.title, str.strip   *)
(* and the classes \d, \s, \b of the re module are the ASCII ones.         *)
(***************************************************************************)
EXTENDS Integers, Sequences, FiniteSets, TLC

VARIABLES
    text,         \* the decoded document text handed to the extractors
    pc,           \* the entry of the resume_data literal evaluated next
    resume_data,  \* the record under construction (parse_resume, line 1115)
    exc,          \* the exception that ended the run, "none" while there is none
    file,         \* the file at file_path: whether it exists, its suffix, its content
    caller,       \* who called parse_resume: "main" or "resume_parser_ui"
    args,         \* main's parsed arguments: verbose and output (given or not)
    printed,      \* the messages reported so far, in order
    output,       \* what the caller showed or wrote: absent, or a channel and its JSON
    exit_status,  \* the argument of sys.exit once it was called, absent before
    called,       \* the entries whose extractor has been called in this call
    history,      \* the earlier calls of parse_resume's extraction: text and record
    peer,         \* a second pipeline instance running beside this one
    qr,           \* the dashboard's QR generator: its output file and its sessions
    chrome,       \* a call of get_chrome_history
    video,        \* a call of extract_video_id
    table,        \* a call of csv_to_markdown or json_to_markdown
    deps          \* a call of extract_dependencies

\* the state of the resume parser
resume == <<text, pc, resume_data, exc, file, caller, args, printed, output, exit_status,
            called, history, peer>>

\* the state of the other tools
tools == <<qr, chrome, video, table, deps>>

vars == <<resume, tools>>

\* a tool that is not in use
Idle == [pc |-> "idle"]

ToolsIdle == qr = Idle /\ chrome = Idle /\ video = Idle /\ table = Idle /\ deps = Idle

---------------------------------------------------------------------------
(* Characters and the str methods the extractors call.                     *)

UpperSeq == <<"A", "B", "C", "D", "E", "F", "G", "H", "I", "J", "K", "L", "M", "N", "O", "P", "Q", "R", "S", "T", "U", "V", "W", "X", "Y", "Z">>

LowerSeq == <<"a", "b", "c", "d", "e", "f", "g", "h", "i", "j", "k", "l", "m", "n", "o", "p", "q", "r", "s", "t", "u", "v", "w", "x", "y", "z">>

Upper == {UpperSeq[i] : i \in 1..Len(UpperSeq)}

Lower == {LowerSeq[i] : i \in 1..Len(LowerSeq)}

Digit == {"0", "1", "2", "3", "4", "5", "6", "7", "8", "9"}

Alpha == Upper \cup Lower

Alnum == Alpha \cup Digit

\* \w of the re module: what \b tells apart from everything else
WordChar == Alnum \cup {"_"}

\* what str.strip(), str.split() and \s take for whitespace
Whitespace == {" ", "\t", "\n", "\r", "\f"}

None == <<>>

Some(s) == <<s>>

\* c.lower() of one character
LowerChar(c) ==
    IF c \in Upper THEN LowerSeq[CHOOSE i \in 1..Len(UpperSeq) : UpperSeq[i] = c] ELSE c

\* c.upper() of one character
UpperChar(c) ==
    IF c \in Lower THEN UpperSeq[CHOOSE i \in 1..Len(LowerSeq) : LowerSeq[i] = c] ELSE c

\* s.lower()
StrLower(s) == [i \in 1..Len(s) |-> LowerChar(s[i])]

\* the keyword shouted instead of title-cased: s.upper()
StrTitle_upper(s) == [i \in 1..Len(s) |-> UpperChar(s[i])]

\* s.title(): a letter that follows a letter is lowercased, any other letter
\* is uppercased, every other character is kept
StrTitle(s) ==
    [i \in 1..Len(s) |->
        IF s[i] \notin Alpha THEN s[i]
        ELSE IF i > 1 /\ s[i-1] \in Alpha THEN LowerChar(s[i])
        ELSE UpperChar(s[i])]

\* s.strip(): s without its leading and trailing whitespace
StrStrip(s) ==
    LET ink == {i \in 1..Len(s) : s[i] \notin Whitespace}
    IN  IF ink = {} THEN <<>>
        ELSE LET first == CHOOSE i \in ink : \A j \in ink : i <= j
                 last  == CHOOSE i \in ink : \A j \in ink : j <= i
             IN  SubSeq(s, first, last)

\* sub in s: sub occurs in s as a contiguous substring
StrIn(sub, s) ==
    \E i \in 0..(Len(s) - Len(sub)) : \A j \in 1..Len(sub) : s[i + j] = sub[j]

RECURSIVE SplitFrom(_, _)
\* s.split("\n") of s from position `from` on: the piece up to the next
\* newline, then the pieces after it
SplitFrom(s, from) ==
    LET nl == {n \in from..Len(s) : s[n] = "\n"}
    IN  IF nl = {} THEN <<SubSeq(s, from, Len(s))>>
        ELSE LET cut == CHOOSE n \in nl : \A m \in nl : n <= m
             IN  <<SubSeq(s, from, cut - 1)>> \o SplitFrom(s, cut + 1)

\* s.split("\n")
SplitLines(s) == SplitFrom(s, 1)

RECURSIVE TokensFrom(_, _)
\* s.split(): the maximal runs of non-whitespace of s from position `from` on
TokensFrom(s, from) ==
    IF from > Len(s) THEN <<>>
    ELSE IF s[from] \in Whitespace THEN TokensFrom(s, from + 1)
    ELSE LET stop == CHOOSE e \in (from + 1)..(Len(s) + 1) :
                        /\ \A m \in from..(e - 1) : s[m] \notin Whitespace
                        /\ (e = Len(s) + 1 \/ s[e] \in Whitespace)
         IN  <<SubSeq(s, from, stop - 1)>> \o TokensFrom(s, stop)

\* s.split()
StrSplit(s) == TokensFrom(s, 1)

---------------------------------------------------------------------------
(* Results of a call: a value, or the exception it raised.                 *)

Ret(v) == [exc |-> "none", val |-> v]

Raise(e) == [exc |-> e, val |-> None]

\* list[i] with Python's 0-based index
GetItem(list, i) ==
    IF 0 <= i /\ i < Len(list) THEN Ret(list[i + 1]) ELSE Raise("IndexError")

---------------------------------------------------------------------------
(* The re module, for the patterns of this program: a pattern is a         *)
(* sequence of items, each a greedy repetition of a character class        *)
(* (cls), the assertion \b (wb), or an optional literal group (opt).       *)

Cls(S, lo, hi) == [kind |-> "cls", set |-> S, min |-> lo, max |-> hi, unbounded |-> FALSE, lit |-> <<>>]

\* S+
Plus(S) == [kind |-> "cls", set |-> S, min |-> 1, max |-> 0, unbounded |-> TRUE, lit |-> <<>>]

\* S*
Star(S) == [kind |-> "cls", set |-> S, min |-> 0, max |-> 0, unbounded |-> TRUE, lit |-> <<>>]

\* S{lo,}
AtLeast(S, lo) == [kind |-> "cls", set |-> S, min |-> lo, max |-> 0, unbounded |-> TRUE, lit |-> <<>>]

\* one literal character
Ch(c) == Cls({c}, 1, 1)

\* S?
Opt(S) == Cls(S, 0, 1)

\* \b
WB == [kind |-> "wb", set |-> {}, min |-> 0, max |-> 0, unbounded |-> FALSE, lit |-> <<>>]

\* (?:literal)?
OptGroup(l) == [kind |-> "opt", set |-> {}, min |-> 0, max |-> 0, unbounded |-> FALSE, lit |-> l]

\* \b holds at pos: exactly one of text[pos-1], text[pos] is a word character
AtBoundary(t, pos) ==
    (pos > 1 /\ t[pos - 1] \in WordChar) # (pos <= Len(t) /\ t[pos] \in WordChar)

\* the literal l stands at pos
LitAt(t, pos, l) ==
    /\ pos + Len(l) - 1 <= Len(t)
    /\ \A m \in 1..Len(l) : t[pos + m - 1] = l[m]

RECURSIVE RunLen(_, _, _, _)
\* how many characters of S stand at pos, at most cap of them (cap < 0: any number)
RunLen(S, t, pos, cap) ==
    IF cap = 0 \/ pos > Len(t) THEN 0
    ELSE IF t[pos] \notin S THEN 0
    ELSE 1 + RunLen(S, t, pos + 1, cap - 1)

RECURSIVE MatchHere(_, _, _, _)
RECURSIVE TryDown(_, _, _, _, _)
\* The backtracking matcher: where the match of items k.. of re that starts
\* at pos ends, 0 when there is none.  A greedy repetition takes as many
\* characters as it can and gives them back one at a time.
MatchHere(re, k, t, pos) ==
    IF k > Len(re) THEN pos
    ELSE LET it == re[k] IN
         IF it.kind = "wb"
         THEN IF AtBoundary(t, pos) THEN MatchHere(re, k + 1, t, pos) ELSE 0
         ELSE IF it.kind = "opt"
         THEN LET with == IF LitAt(t, pos, it.lit)
                          THEN MatchHere(re, k + 1, t, pos + Len(it.lit)) ELSE 0
              IN  IF with # 0 THEN with ELSE MatchHere(re, k + 1, t, pos)
         ELSE TryDown(re, k, t, pos,
                      RunLen(it.set, t, pos, IF it.unbounded THEN 0 - 1 ELSE it.max))

\* item k of re takes n characters at pos, then n-1, ... down to its minimum
TryDown(re, k, t, pos, n) ==
    IF n < re[k].min THEN 0
    ELSE LET e == MatchHere(re, k + 1, t, pos + n)
         IN  IF e # 0 THEN e ELSE TryDown(re, k, t, pos, n - 1)

RECURSIVE FindSpans(_, _, _, _)
\* the spans re.findall scans from pos on, `starts` being the positions at
\* which the matcher finds a match: the leftmost match, then the leftmost
\* match from its end on, and so on (no pattern here matches the empty
\* string; the scan would move on by one character after an empty match)
FindSpans(re, t, starts, pos) ==
    LET ahead == {p \in starts : p >= pos}
    IN  IF ahead = {} THEN <<>>
        ELSE LET s == CHOOSE p \in ahead : \A q \in ahead : p <= q
                 e == MatchHere(re, 1, t, s)
             IN  <<[s |-> s, e |-> e]>>
                 \o FindSpans(re, t, starts, IF e = s THEN s + 1 ELSE e)

\* re.findall(pattern, text) of a pattern without groups: the matched strings
findall(re, t) ==
    LET spans == FindSpans(re, t, {p \in 1..(Len(t) + 1) : MatchHere(re, 1, t, p) # 0}, 1)
    IN  [n \in 1..Len(spans) |-> SubSeq(t, spans[n].s, spans[n].e - 1)]

RECURSIVE MatchEnds(_, _, _, _)
\* The language of a pattern: every position at which a match of items k..
\* of re that starts at i can end, whatever the order the engine tries them in
MatchEnds(re, k, t, i) ==
    IF k > Len(re) THEN {i}
    ELSE LET it == re[k] IN
         IF it.kind = "wb"
         THEN IF AtBoundary(t, i) THEN MatchEnds(re, k + 1, t, i) ELSE {}
         ELSE IF it.kind = "opt"
         THEN MatchEnds(re, k + 1, t, i)
              \cup (IF LitAt(t, i, it.lit)
                    THEN MatchEnds(re, k + 1, t, i + Len(it.lit)) ELSE {})
         ELSE UNION {MatchEnds(re, k + 1, t, i + n) :
                        n \in {m \in it.min..(Len(t) + 1 - i) :
                                  /\ it.unbounded \/ m <= it.max
                                  /\ \A c \in i..(i + m - 1) : t[c] \in it.set}}

\* the pattern matches text[i..j-1]
IsMatch(re, t, i, j) == j \in MatchEnds(re, 1, t, i)

\* the start positions at which the pattern has a match
MatchStarts(re, t) == {i \in 1..Len(t) : MatchEnds(re, 1, t, i) # {}}

---------------------------------------------------------------------------
(* The patterns and keyword lists.                                         *)

\* r'\b[A-Za-z0-9._%+-]+@[A-Za-z0-9.-]+\.[A-Z|a-z]{2,}\b'
email_pattern ==
    << WB, Plus(Alnum \cup {".", "_", "%", "+", "-"}), Ch("@"),
       Plus(Alnum \cup {".", "-"}), Ch("."), AtLeast(Alpha \cup {"|"}, 2), WB >>

\* [-.\s]?
SepOpt == Opt({"-", "."} \cup Whitespace)

\* \(?\d{3}\)?[-.\s]?\d{3}[-.\s]?\d{4}
ParenTail ==
    << Opt({"("}), Cls(Digit, 3, 3), Opt({")"}), SepOpt, Cls(Digit, 3, 3), SepOpt,
       Cls(Digit, 4, 4) >>

\* the list with the parentheses of the second pattern required:
\* r'\(\d{3}\)[-.\s]?\d{3}[-.\s]?\d{4}'
phone_patterns_parens_required ==
    << << Opt({"+"}), Cls(Digit, 1, 3), SepOpt >> \o ParenTail,
       << Ch("("), Cls(Digit, 3, 3), Ch(")"), SepOpt, Cls(Digit, 3, 3), SepOpt,
          Cls(Digit, 4, 4) >>,
       << Cls(Digit, 3, 3), SepOpt, Cls(Digit, 3, 3), SepOpt, Cls(Digit, 4, 4) >> >>

phone_patterns ==
    << \* r'\+?\d{1,3}[-.\s]?\(?\d{3}\)?[-.\s]?\d{3}[-.\s]?\d{4}'
       << Opt({"+"}), Cls(Digit, 1, 3), SepOpt >> \o ParenTail,
       \* r'\(?\d{3}\)?[-.\s]?\d{3}[-.\s]?\d{4}'
       ParenTail,
       \* r'\d{3}[-.\s]?\d{3}[-.\s]?\d{4}'
       << Cls(Digit, 3, 3), SepOpt, Cls(Digit, 3, 3), SepOpt, Cls(Digit, 4, 4) >> >>

\* [-a-zA-Z0-9@:%._\+~#=]
UrlHostChars == Alnum \cup {"-", "@", ":", "%", ".", "_", "+", "~", "#", "="}

\* [-a-zA-Z0-9()@:%_\+.~#?&/=]
UrlTailChars ==
    Alnum \cup {"-", "(", ")", "@", ":", "%", "_", "+", ".", "~", "#", "?", "&", "/", "="}

\* r'https?://(?:www\.)?[-a-zA-Z0-9@:%._\+~#=]{1,256}\.[a-zA-Z0-9()]{1,6}\b(?:[-a-zA-Z0-9()@:%_\+.~#?&/=]*)'
url_pattern ==
    << Ch("h"), Ch("t"), Ch("t"), Ch("p"), Opt({"s"}), Ch(":"), Ch("/"), Ch("/"),
       OptGroup(<<"w", "w", "w", ".">>), Cls(UrlHostChars, 1, 256), Ch("."),
       Cls(Alnum \cup {"(", ")"}, 1, 6), WB, Star(UrlTailChars) >>

title_keywords == << <<"e", "n", "g", "i", "n", "e", "e", "r">>, <<"d", "e", "v", "e", "l", "o", "p", "e", "r">>, <<"m", "a", "n", "a", "g", "e", "r">>, <<"s", "p", "e", "c", "i", "a", "l", "i", "s", "t">> >>

skill_keywords ==
    << <<"p", "y", "t", "h", "o", "n">>, <<"j", "a", "v", "a", "s", "c", "r", "i", "p", "t">>, <<"j", "a", "v", "a">>, <<"c", "+", "+">>, <<"c", "#">>, <<"r", "u", "b", "y">>, <<"p", "h", "p">>, <<"s", "w", "i", "f", "t">>,
       <<"k", "o", "t", "l", "i", "n">>, <<"r", "e", "a", "c", "t">>, <<"a", "n", "g", "u", "l", "a", "r">>, <<"v", "u", "e">>, <<"n", "o", "d", "e">>, <<"d", "j", "a", "n", "g", "o">>, <<"f", "l", "a", "s", "k">>,
       <<"s", "p", "r", "i", "n", "g">>, <<"s", "q", "l">>, <<"m", "o", "n", "g", "o", "d", "b">>, <<"p", "o", "s", "t", "g", "r", "e", "s", "q", "l">>, <<"m", "y", "s", "q", "l">>, <<"r", "e", "d", "i", "s">>, <<"a", "w", "s">>,
       <<"a", "z", "u", "r", "e">>, <<"g", "c", "p">>, <<"d", "o", "c", "k", "e", "r">>, <<"k", "u", "b", "e", "r", "n", "e", "t", "e", "s">>, <<"g", "i", "t">>, <<"a", "g", "i", "l", "e">>, <<"s", "c", "r", "u", "m">>,
       <<"j", "i", "r", "a">>, <<"m", "a", "c", "h", "i", "n", "e", " ", "l", "e", "a", "r", "n", "i", "n", "g">>, <<"a", "i">>, <<"d", "a", "t", "a", " ", "a", "n", "a", "l", "y", "s", "i", "s">>, <<"s", "t", "a", "t", "i", "s", "t", "i", "c", "s">> >>

education_keywords ==
    << <<"u", "n", "i", "v", "e", "r", "s", "i", "t", "y">>, <<"c", "o", "l", "l", "e", "g", "e">>, <<"b", "a", "c", "h", "e", "l", "o", "r">>, <<"m", "a", "s", "t", "e", "r">>, <<"p", "h", "d">>, <<"d", "e", "g", "r", "e", "e">>,
       <<"b", ".", "s", ".">>, <<"m", ".", "s", ".">>, <<"b", ".", "a", ".">>, <<"m", ".", "a", ".">> >>

---------------------------------------------------------------------------
(* The field extractors.  Each returns Ret(value) or Raise(exception).     *)

\* a present value out of a call that returned one, the exception otherwise
SomeOf(r) == IF r.exc = "none" THEN Ret(Some(r.val)) ELSE r

\* extract_email with the guard off by one: matches[0] if len(matches) > 1 else None
extract_email_needs_two(t) ==
    LET matches == findall(email_pattern, t)
    IN  IF Len(matches) > 1 THEN SomeOf(GetItem(matches, 0)) ELSE Ret(None)

\* extract_email taking the match at the other end of the list: matches[-1]
extract_email_last(t) ==
    LET matches == findall(email_pattern, t)
    IN  IF Len(matches) > 0 THEN SomeOf(GetItem(matches, Len(matches) - 1)) ELSE Ret(None)

\* extract_email reading the text from a module-level variable that a second
\* instance, while it runs, has overwritten with its own
extract_email_shared(t) ==
    LET matches == findall(email_pattern,
                           IF peer.pc \in {"idle", "done", "raised"} THEN t ELSE peer.text)
    IN  IF Len(matches) > 0 THEN SomeOf(GetItem(matches, 0)) ELSE Ret(None)

\* matches[0] if matches else None
extract_email(t) ==
    LET matches == findall(email_pattern, t)
    IN  IF Len(matches) > 0 THEN SomeOf(GetItem(matches, 0)) ELSE Ret(None)

RECURSIVE PhoneLoop(_, _)
\* for pattern in phone_patterns, from the k-th on: the first match of the
\* first pattern that has one
PhoneLoop(t, k) ==
    IF k > Len(phone_patterns) THEN Ret(None)
    ELSE LET matches == findall(phone_patterns[k], t)
         IN  IF Len(matches) > 0 THEN SomeOf(GetItem(matches, 0))
             ELSE PhoneLoop(t, k + 1)

\* the match of any pattern that starts first in the text, at or after
\* from; the earlier pattern where two start together
EarliestPhone(t, from) ==
    IF from > Len(t) THEN Ret(None)
    ELSE LET here == {k \in 1..Len(phone_patterns) :
                         MatchHere(phone_patterns[k], 1, t, from) # 0}
         IN  IF here = {} THEN Raise("continue")
             ELSE LET k == CHOOSE n \in here : \A m \in here : n <= m
                  IN  Ret(Some(SubSeq(t, from,
                                      MatchHere(phone_patterns[k], 1, t, from) - 1)))

RECURSIVE PhoneByPosition(_, _)
PhoneByPosition(t, from) ==
    LET r == EarliestPhone(t, from)
    IN  IF r.exc = "continue" THEN PhoneByPosition(t, from + 1) ELSE r

\* extract_phone selecting by document position instead of pattern priority
extract_phone_by_position(t) == PhoneByPosition(t, 1)

\* extract_phone answering from a cache that is not keyed by the text: the
\* number the call before returned, when it returned one
extract_phone_memo(t) ==
    IF history = <<>> \/ history[Len(history)].resume_data.phone = None
    THEN PhoneLoop(t, 1)
    ELSE Ret(history[Len(history)].resume_data.phone)

extract_phone(t) == PhoneLoop(t, 1)

RECURSIVE Unique(_, _)
\* list[k..] without the entries that an earlier one equals
Unique(list, k) ==
    IF k > Len(list) THEN <<>>
    ELSE (IF \E n \in 1..(k - 1) : list[n] = list[k] THEN <<>> ELSE <<list[k]>>)
         \o Unique(list, k + 1)

\* extract_urls dropping repeated URLs
extract_urls_unique(t) == Ret(Unique(findall(url_pattern, t), 1))

extract_urls(t) == Ret(findall(url_pattern, t))

NonEmpty(s) == Len(s) > 0

\* keyword in s, for some keyword of the list
AnyKeywordIn(keywords, s) == \E n \in 1..Len(keywords) : StrIn(keywords[n], s)

\* [line.strip() for line in text.split("\n") if line.strip()]
StrippedLines(t) ==
    LET lines == SplitLines(t)
    IN  SelectSeq([n \in 1..Len(lines) |-> StrStrip(lines[n])], NonEmpty)

\* the filter with the token limit off by one: len(first_line.split()) < 4
LooksLikeName_under_four(first_line) ==
    /\ Len(StrSplit(first_line)) < 4
    /\ ~AnyKeywordIn(title_keywords, StrLower(first_line))

\* the candidate passes the job-title filter of line 1047
LooksLikeName(first_line) ==
    /\ Len(StrSplit(first_line)) <= 4
    /\ ~AnyKeywordIn(title_keywords, StrLower(first_line))

\* extract_name without the test that a line is left: lines[0] of any list
extract_name_unguarded(t) ==
    LET first_line == GetItem(StrippedLines(t), 0)
    IN  IF first_line.exc # "none" THEN first_line
        ELSE IF LooksLikeName(first_line.val) THEN Ret(Some(first_line.val))
        ELSE Ret(None)

\* extract_name normalising the letter case of its result: first_line.lower()
extract_name_lowered(t) ==
    LET lines == StrippedLines(t)
    IN  IF Len(lines) > 0
        THEN LET first_line == GetItem(lines, 0)
             IN  IF first_line.exc # "none" THEN first_line
                 ELSE IF LooksLikeName(first_line.val)
                      THEN Ret(Some(StrLower(first_line.val)))
                 ELSE Ret(None)
        ELSE Ret(None)

extract_name(t) ==
    LET lines == StrippedLines(t)
    IN  IF Len(lines) > 0
        THEN LET first_line == GetItem(lines, 0)
             IN  IF first_line.exc # "none" THEN first_line
                 ELSE IF LooksLikeName(first_line.val) THEN Ret(Some(first_line.val))
                 ELSE Ret(None)
        ELSE Ret(None)

\* the test without text.lower(): skill in text
SkillFound_case_sensitive(skill, t) == StrIn(skill, t)

\* the test on a text cut short: skill in text_lower[:8]
SkillFound_in_head(skill, t) ==
    StrIn(skill, StrLower(SubSeq(t, 1, IF Len(t) < 8 THEN Len(t) ELSE 8)))

\* the test with a word-boundary check: the keyword with no letter before
\* or after it
SkillFound_whole_word(skill, t) ==
    LET text_lower == StrLower(t)
    IN  \E i \in 0..(Len(text_lower) - Len(skill)) :
            /\ \A j \in 1..Len(skill) : text_lower[i + j] = skill[j]
            /\ (i = 0 \/ text_lower[i] \notin Alpha)
            /\ (i + Len(skill) = Len(text_lower) \/ text_lower[i + Len(skill) + 1] \notin Alpha)

\* the test at the start of the text only: text_lower.startswith(skill)
SkillFound_prefix(skill, t) ==
    /\ Len(skill) <= Len(t)
    /\ \A j \in 1..Len(skill) : LowerChar(t[j]) = skill[j]

\* skill in text_lower
SkillFound(skill, t) == StrIn(skill, StrLower(t))

RECURSIVE FoundSkillsFrom(_, _)
\* found_skills after the loop over skill_keywords[k..]
FoundSkillsFrom(t, k) ==
    IF k > Len(skill_keywords) THEN <<>>
    ELSE (IF SkillFound(skill_keywords[k], t) THEN <<StrTitle(skill_keywords[k])>> ELSE <<>>)
         \o FoundSkillsFrom(t, k + 1)

found_skills(t) == FoundSkillsFrom(t, 1)

RECURSIVE Orderings(_)
\* every list that holds each element of S once
Orderings(S) ==
    IF S = {} THEN {<<>>}
    ELSE UNION {{<<x>> \o rest : rest \in Orderings(S \ {x})} : x \in S}

\* found_skills kept from call to call (a list made once, as a default
\* argument is): the set also holds what the call before found
SkillSet_accumulating(t) ==
    LET found == found_skills(t)
    IN  {found[n] : n \in 1..Len(found)}
            \cup (IF history = <<>> THEN {}
                  ELSE LET before == history[Len(history)].resume_data.skills
                       IN  {before[n] : n \in 1..Len(before)})

\* set(found_skills)
SkillSet(t) == LET found == found_skills(t) IN {found[n] : n \in 1..Len(found)}

\* list(set(found_skills)): the lists extract_skills can return.  The order
\* in which a set of strings is iterated depends on the run's hash seed.
extract_skills(t) == Orderings(SkillSet(t))

\* the test that keeps every line with something on it: if line.strip()
IsEducationLine_nonblank(line) == NonEmpty(StrStrip(line))

\* any(keyword in line.lower() for keyword in education_keywords)
IsEducationLine(line) == AnyKeywordIn(education_keywords, StrLower(line))

RECURSIVE EducationFrom(_, _)
\* education after the loop over lines[k..]
EducationFrom(lines, k) ==
    IF k > Len(lines) THEN <<>>
    ELSE (IF IsEducationLine(lines[k]) THEN <<StrStrip(lines[k])>> ELSE <<>>)
         \o EducationFrom(lines, k + 1)

\* extract_education dropping repeated lines
extract_education_unique(t) == Ret(Unique(EducationFrom(SplitLines(t), 1), 1))

extract_education(t) == Ret(EducationFrom(SplitLines(t), 1))

\* how many characters of the text the preview keeps
PreviewLen == 500

\* the truncation marker "..."
Marker == <<".", ".", ".">>

\* the preview with the comparison off by one: len(text) >= 500
raw_text_from_limit(t) ==
    IF Len(t) >= PreviewLen THEN SubSeq(t, 1, PreviewLen) \o Marker ELSE t

\* text[:500] + "..." if len(text) > 500 else text
raw_text(t) ==
    IF Len(t) > PreviewLen
    THEN SubSeq(t, 1, IF Len(t) < PreviewLen THEN Len(t) ELSE PreviewLen) \o Marker
    ELSE t

---------------------------------------------------------------------------
(* parse_resume, lines 1115-1125: the entries of the resume_data literal   *)
(* are evaluated in the order written, one call each.                      *)

Entries == <<"name", "email", "phone", "urls", "skills", "education", "raw_text", "done">>

\* the entries that an extractor fills; raw_text is computed in the literal
Extractors == {"name", "email", "phone", "urls", "skills", "education"}

\* the position of an entry in the literal
EntryIndex(e) == CHOOSE n \in 1..Len(Entries) : Entries[n] = e

\* the entry evaluated after e
NextEntry(e) == Entries[EntryIndex(e) + 1]

\* every entry has been evaluated: parse_resume returns resume_data
Done == pc = "done"

EmptyRecord ==
    [name |-> None, email |-> None, phone |-> None, urls |-> <<>>, skills |-> <<>>,
     education |-> <<>>, raw_text |-> <<>>]

\* entry e of the literal gets the result r of its call; an exception ends the run
Evaluate(e, r) ==
    /\ pc = e
    /\ IF r.exc = "none"
       THEN /\ resume_data' = [resume_data EXCEPT ![e] = r.val]
            /\ pc' = NextEntry(e)
            /\ exc' = exc
       ELSE /\ pc' = "raised"
            /\ exc' = r.exc
            /\ resume_data' = resume_data
    /\ text' = text
    /\ called' = (IF e \in Extractors THEN called \cup {e} ELSE called)
    /\ UNCHANGED <<file, caller, args, printed, output, exit_status, history, peer>>
    /\ UNCHANGED tools

EvalName == Evaluate("name", extract_name(text))

EvalEmail == Evaluate("email", extract_email(text))

EvalPhone == Evaluate("phone", extract_phone(text))

EvalUrls == Evaluate("urls", extract_urls(text))

EvalSkills == \E skills \in extract_skills(text) : Evaluate("skills", Ret(skills))

EvalEducation == Evaluate("education", extract_education(text))

EvalRawText == Evaluate("raw_text", Ret(raw_text(text)))

Next ==
    \/ EvalName
    \/ EvalEmail
    \/ EvalPhone
    \/ EvalUrls
    \/ EvalSkills
    \/ EvalEducation
    \/ EvalRawText

---------------------------------------------------------------------------
(* Before the literal: parse_resume checks the file and decodes it, lines  *)
(* 1097-1112, and every failure ends in print(...); sys.exit(1).           *)

\* main's arguments when neither -v nor -o is given
NoArgs == [verbose |-> FALSE, output |-> FALSE]

\* print(msg); sys.exit(1)
SysExit(msg) == [exc |-> "SystemExit", val |-> msg]

RECURSIVE PdfPages(_, _)
\* text += page.extract_text() + "\n", for the pages from the k-th on
PdfPages(pages, k) ==
    IF k > Len(pages) THEN <<>> ELSE pages[k] \o <<"\n">> \o PdfPages(pages, k + 1)

RECURSIVE JoinLines(_, _)
\* "\n".join(paragraphs[k..])
JoinLines(paragraphs, k) ==
    IF k > Len(paragraphs) THEN <<>>
    ELSE IF k = Len(paragraphs) THEN paragraphs[k]
    ELSE paragraphs[k] \o <<"\n">> \o JoinLines(paragraphs, k + 1)

\* extract_text_from_pdf swallowing the error: the except clause prints and
\* returns the text read so far, "", to the caller
extract_text_from_pdf_goes_on(f) ==
    IF f.readable THEN Ret(PdfPages(f.parts, 1)) ELSE Ret(<<>>)

\* any exception of open or PyPDF2 is reported and ends the run
extract_text_from_pdf(f) ==
    IF f.readable THEN Ret(PdfPages(f.parts, 1)) ELSE SysExit("[ERROR] Failed to read PDF")

extract_text_from_docx(f) ==
    IF f.readable THEN Ret(JoinLines(f.parts, 1)) ELSE SysExit("[ERROR] Failed to read DOCX")

\* a readable .docx file whose paragraphs are the lines of t: it decodes to t
DocxOf(t) == [exists |-> TRUE, suffix |-> <<".", "d", "o", "c", "x">>, readable |-> TRUE, parts |-> SplitLines(t)]

\* lines 1099-1103: the file must exist
ParseStart ==
    /\ pc = "start"
    /\ IF file.exists
       THEN /\ printed' = Append(printed, "[INFO] Parsing resume")
            /\ pc' = "decode"
            /\ exit_status' = exit_status
       ELSE /\ printed' = Append(printed, "[ERROR] File not found")
            /\ pc' = "exited"
            /\ exit_status' = Some(1)
    /\ UNCHANGED <<text, resume_data, exc, file, caller, args, output, called, history, peer>>
    /\ UNCHANGED tools

\* lines 1106-1112: the decoder is chosen by path.suffix.lower()
ExtractText ==
    /\ pc = "decode"
    /\ LET suffix == StrLower(file.suffix)
           r == IF suffix = <<".", "p", "d", "f">> THEN extract_text_from_pdf(file)
                ELSE IF suffix = <<".", "d", "o", "c", "x">> THEN extract_text_from_docx(file)
                ELSE SysExit("[ERROR] File must be .pdf or .docx")
       IN  IF r.exc = "none"
           THEN /\ text' = r.val
                /\ pc' = "name"
                /\ UNCHANGED <<printed, exit_status>>
           ELSE /\ printed' = Append(printed, r.val)
                /\ pc' = "exited"
                /\ exit_status' = Some(1)
                /\ text' = text
    /\ UNCHANGED <<resume_data, exc, file, caller, args, output, called, history, peer>>
    /\ UNCHANGED tools

---------------------------------------------------------------------------
(* After parse_resume has returned: what its callers show.                 *)

Keys == {"name", "email", "phone", "urls", "skills", "education", "raw_text"}

\* the JSON object of a record: its keys and their values
Json(r, keys) == [k \in keys |-> r[k]]

\* main, lines 1148-1159: raw_text is popped unless -v was given, and the
\* record is dumped to the -o file or printed
MainEmit ==
    /\ pc = "done"
    /\ caller = "main"
    /\ LET keys == IF ~args.verbose THEN Keys \ {"raw_text"} ELSE Keys
       IN  IF args.output
           THEN /\ output' = Some([channel |-> "file", data |-> Json(resume_data, keys)])
                /\ printed' = Append(printed, "[OK] Resume data saved")
           ELSE /\ output' = Some([channel |-> "console", data |-> Json(resume_data, keys)])
                /\ printed' = Append(printed, "[INFO] Parsed Resume Data")
    /\ pc' = "returned"
    /\ exit_status' = Some(0)
    /\ UNCHANGED <<text, resume_data, exc, file, args, caller, called, history, peer>>
    /\ UNCHANGED tools

\* resume_parser_ui, src/app.py lines 384-387: st.success, then
\* st.json(resume_data) with the record as parse_resume returned it, then
\* os.unlink(tmp_path).  The file is the temporary one the upload was
\* written to (lines 377-379).
UiShow ==
    /\ pc = "done"
    /\ caller = "resume_parser_ui"
    /\ output' = Some([channel |-> "st.json", data |-> Json(resume_data, Keys)])
    /\ printed' = Append(printed, "Resume parsed successfully!")
    /\ file' = [file EXCEPT !.exists = FALSE]
    /\ pc' = "returned"
    /\ UNCHANGED <<text, resume_data, exc, args, caller, exit_status, called,
                   history, peer>>
    /\ UNCHANGED tools

NextMain ==
    \/ ParseStart
    \/ ExtractText
    \/ Next
    \/ MainEmit
    \/ UiShow

---------------------------------------------------------------------------
(* The extraction called again in the same process, and a second instance  *)
(* of it running beside the first.                                         *)

\* how many earlier calls are remembered
MaxCalls == 2

\* parse_resume's extraction is entered again with one of the texts; the
\* call that has just returned joins the earlier ones, with a note of
\* whether it ran alone (no second instance had been started)
CallAgain(texts) ==
    /\ pc = "done"
    /\ Len(history) < MaxCalls
    /\ history' = Append(history, [text |-> text, resume_data |-> resume_data,
                                   alone |-> peer.pc = "idle"])
    /\ text' \in texts
    /\ file' = DocxOf(text')
    /\ pc' = "name"
    /\ resume_data' = EmptyRecord
    /\ called' = {}
    /\ UNCHANGED <<exc, caller, args, printed, output, exit_status, peer>>
    /\ UNCHANGED tools

\* the second instance before it is started
IdlePeer == [text |-> <<>>, pc |-> "idle", resume_data |-> EmptyRecord]

\* the second instance is started on one of the texts
StartPeer(texts) ==
    /\ peer.pc = "idle"
    /\ \E t \in texts : peer' = [text |-> t, pc |-> "name", resume_data |-> EmptyRecord]
    /\ UNCHANGED <<text, pc, resume_data, exc, file, caller, args, printed, output,
                   exit_status, called, history>>
    /\ UNCHANGED tools

\* what the call for entry e can return for the text t
CallOf(e, t) ==
    CASE e = "name" -> {extract_name(t)}
      [] e = "email" -> {extract_email(t)}
      [] e = "phone" -> {extract_phone(t)}
      [] e = "urls" -> {extract_urls(t)}
      [] e = "skills" -> {Ret(skills) : skills \in extract_skills(t)}
      [] e = "education" -> {extract_education(t)}
      [] e = "raw_text" -> {Ret(raw_text(t))}

\* the second instance evaluates its next entry
PeerStep ==
    /\ peer.pc \in Extractors \cup {"raw_text"}
    /\ \E r \in CallOf(peer.pc, peer.text) :
           peer' = IF r.exc = "none"
                   THEN [peer EXCEPT !.resume_data[peer.pc] = r.val,
                                     !.pc = NextEntry(peer.pc)]
                   ELSE [peer EXCEPT !.pc = "raised"]
    /\ UNCHANGED <<text, pc, resume_data, exc, file, caller, args, printed, output,
                   exit_status, called, history>>
    /\ UNCHANGED tools

---------------------------------------------------------------------------
(* The texts the specifications start from: concatenations of a few pieces *)
(* of a library, and texts about as long as the preview.                   *)

\* how many pieces a text is made of, at most
MaxPieces == 3

\* how far the long texts' lengths go below and above PreviewLen
MaxOver == 2

RECURSIVE Compose(_, _)
\* the concatenations of at most n pieces of lib
Compose(lib, n) ==
    IF n = 0 THEN {<<>>}
    ELSE {<<>>} \cup {p \o t : p \in lib, t \in Compose(lib, n - 1)}

\* a resume's opening lines, repeated to fill the long texts
Filler == <<"J", "a", "n", "e", " ", "D", "o", "e", "\n", "j", "a", "n", "e", "@", "x", ".", "i", "o", " ", "+", "1", " ", "(", "5", "5", "5", ")", " ", "1", "2", "3", "-", "4", "5", "6", "7", "\n", "P", "y", "t", "h", "o", "n", ",", " ", "S", "Q", "L", "\n", "B", ".", "S", ".", " ", "S", "t", "a", "t", "e", " ", "U", "n", "i", "v", "e", "r", "s", "i", "t", "y", "\n", "h", "t", "t", "p", ":", "/", "/", "a", ".", "c", "o", "/", "c", "v", "\n">>

\* the first n characters of the filler repeated
LongText(n) == [i \in 1..n |-> Filler[((i - 1) % Len(Filler)) + 1]]

LongTexts == {LongText(n) : n \in (PreviewLen - MaxOver)..(PreviewLen + MaxOver)}

MixedPieces ==
    { <<"J", "a", "n", "e", " ", "D", "o", "e">>, <<"\n">>, <<" ">>, <<"a", "@", "b", ".", "c", "o">>, <<"5", "5", "5", "1", "2", "3", "4", "5", "6", "7">>, <<"h", "t", "t", "p", ":", "/", "/", "a", ".", "c", "o">>,
      <<"P", "y", "t", "h", "o", "n", " ", "a", "t", " ", "S", "t", "a", "t", "e", " ", "U", "n", "i", "v", "e", "r", "s", "i", "t", "y">> }

PhonePieces ==
    { <<"+", "1", " ", "(", "5", "5", "5", ")", " ", "1", "2", "3", "-", "4", "5", "6", "7">>, <<"(", "5", "5", "5", ")", " ", "1", "2", "3", "-", "4", "5", "6", "7">>, <<"5", "5", "5", "1", "2", "3", "4", "5", "6", "7">>, <<"+", "1", " ">>, <<" ">>, <<"1">>, <<"x">> }

NamePieces ==
    { <<"J", "a", "n", "e", " ", "D", "o", "e">>, <<" ", "a", " ", "b">>, <<" ", "c">>, <<"\n">>, <<" ", " ">>, <<"M", "A", "N", "A", "G", "E", "R">>, <<"S", "o", "f", "t", "w", "a", "r", "e", " ", "E", "n", "g", "i", "n", "e", "e", "r">> }

SkillPieces ==
    { <<"P", "y", "t", "h", "o", "n">>, <<"j", "a", "v", "a">>, <<"s", "c", "r", "i", "p", "t">>, <<"m", "y">>, <<"S", "Q", "L">>, <<" ">>, <<"a">>, <<"i">> }

EducationPieces ==
    { <<"B", ".", "S", ".", " ", "i", "n", " ", "C", "S">>, <<"S", "t", "a", "t", "e", " ", "U", "n", "i", "v", "e", "r", "s", "i", "t", "y">>, <<"\n">>, <<" ">>, <<"H", "o", "s", "p", "i", "t", "a", "l">>, <<" ", "P", "h", "D", " ">>, <<"x">> }

EmailPieces ==
    { <<"a", "@", "b", ".", "c", "o">>, <<"c", "@", "d", ".", "i", "o">>, <<"|", "x">>, <<"1">>, <<" ">>, <<"_">>, <<"@">>, <<".">> }

UrlPieces ==
    { <<"h", "t", "t", "p", ":", "/", "/", "a", ".", "c", "o">>, <<"h", "t", "t", "p", "s", ":", "/", "/", "w", "w", "w", ".", "b", ".", "i", "o", "/", "x", "?", "y", "=", "1">>, <<"h", "t", "t", "p">>, <<":", "/", "/">>, <<"c", ".", "d">>, <<"/">>, <<" ">>, <<"x">> }

GarbagePieces ==
    { <<"#", "~">>, <<"\t">>, <<"z", "q">>, <<"\n">>, <<" ">>, <<"9">>, <<"@">>, <<"(">> }

SentencePieces ==
    { <<"E", "x", "p", "e", "r", "i", "e", "n", "c", "e", " ", "w", "i", "t", "h", " ", "P", "y", "t", "h", "o", "n", " ", "a", "n", "d", " ", "A", "W", "S">>, <<"\n">>, <<" ">>, <<"j", "a", "v", "a">>, <<"x">>, <<"S", "3", " ", "a", "n", "d", " ", "S", "Q", "L", ".">> }

PermutePieces ==
    { <<"a">>, <<"i">>, <<"x">>, <<"\n">>, <<"x", "x", "\n">>, <<"P", "y", "t", "h", "o", "n", "\n">> }

CompoundPieces ==
    { <<"j", "a", "v", "a">>, <<"S", "c", "r", "i", "p", "t">>, <<"p", "o", "s", "t", "g", "r", "e", "S", "Q", "L">>, <<"m", "y">>, <<"s", "q", "l">>, <<"S", "Q", "L">>, <<" ">> }

\* parse_resume has decoded one of the texts and is about to build the record
\* the texts of the repeated calls
CallTexts ==
    { <<>>, <<"P", "y", "t", "h", "o", "n", ",", " ", "S", "Q", "L">>, <<"S", "Q", "L", " ", "a", "n", "d", " ", "P", "y", "t", "h", "o", "n">>, <<"J", "a", "n", "e", " ", "D", "o", "e", "\n", "a", "@", "b", ".", "c", "o">>, <<"a", "@", "b", ".", "c", "o", " ", "5", "5", "5", "1", "2", "3", "4", "5", "6", "7">>,
      <<"P", "y", "t", "h", "o", "n", " ", "(", "5", "5", "5", ")", " ", "1", "2", "3", "-", "4", "5", "6", "7">> }

\* the texts of the two instances
PeerTexts == { <<"a", "@", "b", ".", "c", "o", " ", "P", "y", "t", "h", "o", "n", ",", " ", "S", "Q", "L">>, <<"J", "a", "n", "e", " ", "D", "o", "e", "\n", "c", "@", "d", ".", "i", "o">> }

InitWith(texts) ==
    /\ text \in texts
    /\ pc = "name"
    /\ resume_data = EmptyRecord
    /\ exc = "none"
    /\ file = DocxOf(text)
    /\ caller = "main"
    /\ args = NoArgs
    /\ printed = << "[INFO] Parsing resume" >>
    /\ output = None
    /\ exit_status = None
    /\ called = {}
    /\ history = <<>>
    /\ peer = IdlePeer
    /\ ToolsIdle

\* the suffixes of the files handed to parse_resume
Suffixes == { <<".", "p", "d", "f">>, <<".", "P", "D", "F">>, <<".", "d", "o", "c", "x">>, <<".", "t", "x", "t">>, <<>> }

\* what a readable file holds: its pages or paragraphs
Documents == { <<>>, << <<"J", "a", "n", "e", " ", "D", "o", "e">> >>, << <<"J", "a", "n", "e", " ", "D", "o", "e">>, <<"a", "@", "b", ".", "c", "o", " ", "P", "y", "t", "h", "o", "n">> >> }

\* a missing file cannot be read, and an unreadable one gives no content
Files ==
    {f \in [exists : BOOLEAN, suffix : Suffixes, readable : BOOLEAN, parts : Documents] :
        /\ ~f.exists => ~f.readable
        /\ ~f.readable => f.parts = <<>>}

\* main is started with any file and any flags; the dashboard writes the
\* upload to a temporary file named .pdf or .docx and has no flags
InitMain ==
    /\ file \in Files
    /\ caller \in {"main", "resume_parser_ui"}
    /\ args \in [verbose : BOOLEAN, output : BOOLEAN]
    /\ caller = "resume_parser_ui" =>
           /\ file.exists
           /\ file.suffix \in { <<".", "p", "d", "f">>, <<".", "d", "o", "c", "x">> }
           /\ args = NoArgs
    /\ text = <<>>
    /\ pc = "start"
    /\ resume_data = EmptyRecord
    /\ exc = "none"
    /\ printed = <<>>
    /\ output = None
    /\ exit_status = None
    /\ called = {}
    /\ history = <<>>
    /\ peer = IdlePeer
    /\ ToolsIdle

Init == InitWith(Compose(MixedPieces, MaxPieces) \cup LongTexts)

Spec == Init /\ [][Next]_vars

SpecPhone == InitWith(Compose(PhonePieces, MaxPieces)) /\ [][Next]_vars

SpecName == InitWith(Compose(NamePieces, MaxPieces)) /\ [][Next]_vars

SpecSkills == InitWith(Compose(SkillPieces, MaxPieces)) /\ [][Next]_vars

SpecEducation == InitWith(Compose(EducationPieces, MaxPieces)) /\ [][Next]_vars

SpecEmail == InitWith(Compose(EmailPieces, MaxPieces)) /\ [][Next]_vars

SpecUrls == InitWith(Compose(UrlPieces, MaxPieces)) /\ [][Next]_vars

SpecGarbage == InitWith(Compose(GarbagePieces, MaxPieces)) /\ [][Next]_vars

SpecSentence == InitWith(Compose(SentencePieces, MaxPieces)) /\ [][Next]_vars

SpecPermute == InitWith(Compose(PermutePieces, MaxPieces)) /\ [][Next]_vars

SpecMain == InitMain /\ [][NextMain]_vars

NextCalls ==
    \/ Next
    \/ CallAgain(CallTexts)

NextConcurrent ==
    \/ Next
    \/ CallAgain(PeerTexts)
    \/ StartPeer(PeerTexts)
    \/ PeerStep

SpecCalls == InitWith(CallTexts) /\ [][NextCalls]_vars

SpecConcurrent == InitWith(PeerTexts) /\ [][NextConcurrent]_vars

SpecCompound == InitWith(Compose(CompoundPieces, MaxPieces)) /\ [][Next]_vars

---------------------------------------------------------------------------
(* The other tools start with the resume parser out of use.                *)

ResumeIdle ==
    /\ text = <<>>
    /\ pc = "idle"
    /\ resume_data = EmptyRecord
    /\ exc = "none"
    /\ file = DocxOf(<<>>)
    /\ caller = "main"
    /\ args = NoArgs
    /\ printed = <<>>
    /\ output = None
    /\ exit_status = None
    /\ called = {}
    /\ history = <<>>
    /\ peer = IdlePeer

---------------------------------------------------------------------------
(* The dashboard's QR generator, src/app.py lines 201-230.  Every session  *)
(* runs the same script in the same working directory, so the output path  *)
(* "qrcode_output.png" names one file for all of them.  A click is handled *)
(* in three steps that touch the file: img.save, st.image and open.        *)

Sessions == {1, 2}

\* what the text area can hold
QrData == { <<>>, <<"a">>, <<"b">> }

\* the values of the size slider the model draws
QrSizes == {10, 20}

\* qr.make_image(...) for qr.add_data(data) and box_size=size: the image,
\* told apart by what it encodes and how large it is drawn
QrImage(data, size) == [data |-> data, box_size |-> size]

\* lines 205-218: the click on 'Generate QR Code'; with data the image is
\* made and saved to output_path, without it a warning is shown
QrGenerate ==
    \E s \in Sessions :
        /\ qr.sessions[s].pc = "click"
        /\ IF qr.sessions[s].data # <<>>
           THEN qr' = [qr EXCEPT
                          !.file = Some(QrImage(qr.sessions[s].data, qr.sessions[s].size)),
                          !.sessions[s].pc = "saved",
                          !.sessions[s].message = "QR code generated!"]
           ELSE qr' = [qr EXCEPT
                          !.sessions[s].pc = "done",
                          !.sessions[s].message = "Please enter text or URL"]
        /\ UNCHANGED <<resume, chrome, video, table, deps>>

\* line 219: st.image(output_path) shows what the file holds now
QrShow ==
    \E s \in Sessions :
        /\ qr.sessions[s].pc = "saved"
        /\ qr' = [qr EXCEPT !.sessions[s].shown = qr.file, !.sessions[s].pc = "shown"]
        /\ UNCHANGED <<resume, chrome, video, table, deps>>

\* lines 221-226: the download button is given the file as it is read now
QrDownload ==
    \E s \in Sessions :
        /\ qr.sessions[s].pc = "shown"
        /\ qr' = [qr EXCEPT !.sessions[s].download = qr.file, !.sessions[s].pc = "done"]
        /\ UNCHANGED <<resume, chrome, video, table, deps>>

NextQr ==
    \/ QrGenerate
    \/ QrShow
    \/ QrDownload

\* every session has typed its data, set its size and is about to click
InitQr ==
    /\ ResumeIdle
    /\ qr \in [file : {None},
               sessions : [Sessions -> [pc : {"click"}, data : QrData, size : QrSizes,
                                        shown : {None}, download : {None},
                                        message : {"none"}]]]
    /\ chrome = Idle
    /\ video = Idle
    /\ table = Idle
    /\ deps = Idle

SpecQr == InitQr /\ [][NextQr]_vars

---------------------------------------------------------------------------
(* get_chrome_history, src/Articles-pod.py lines 90-137.  What the call    *)
(* meets is drawn at the start: the platform (sys.platform, line 176),     *)
(* whether the database exists, whether it can be copied, and how sqlite3  *)
(* takes the copy.                                                         *)

Platforms == {"win32", "darwin", "linux"}

\* the rows of the urls table, most recent first
HistoryRows == { <<>>, << "visit1" >>, << "visit1", "visit2" >> }

\* the values of limit the model draws: the default and one below it
HistoryLimits == {1, 50}

\* ORDER BY last_visit_time DESC LIMIT ?: the first `limit` rows
Fetch(rows, limit) == SubSeq(rows, 1, IF Len(rows) < limit THEN Len(rows) ELSE limit)

\* the other variables when only get_chrome_history runs
ChromeOnly == UNCHANGED <<resume, qr, video, table, deps>>

\* lines 105-107: the database must exist; sys.exit raises SystemExit, which
\* neither except clause catches
ChromeCheck ==
    /\ chrome.pc = "start"
    /\ IF chrome.db_exists
       THEN chrome' = [chrome EXCEPT !.pc = "mktemp"]
       ELSE chrome' = [chrome EXCEPT
                          !.printed = Append(@, "[ERROR] History database not found"),
                          !.exit_status = Some(1),
                          !.pc = "exited"]
    /\ ChromeOnly

\* lines 110-111: NamedTemporaryFile(delete=False) leaves an empty file
ChromeMakeTemp ==
    /\ chrome.pc = "mktemp"
    /\ chrome' = [chrome EXCEPT !.temp = "exists", !.pc = "copy"]
    /\ ChromeOnly

\* line 114: shutil.copy2 copies, or raises an OSError
ChromeCopy ==
    /\ chrome.pc = "copy"
    /\ IF chrome.copy_ok
       THEN chrome' = [chrome EXCEPT !.pc = "query"]
       ELSE chrome' = [chrome EXCEPT !.pending = "OSError", !.pc = "finally"]
    /\ ChromeOnly

\* lines 116-125: connect, execute, fetchall, close, return.  sqlite3.Error
\* raised by connect leaves no connection; raised by execute it leaves the
\* connection open, because conn.close() of line 124 is not reached
ChromeQuery ==
    /\ chrome.pc = "query"
    /\ chrome' =
           CASE chrome.sqlite = "ok" ->
                    [chrome EXCEPT !.result = Some(Fetch(chrome.rows, chrome.limit)),
                                   !.pending = "return", !.pc = "finally"]
             [] chrome.sqlite = "connect fails" ->
                    [chrome EXCEPT !.pending = "sqlite3.Error", !.pc = "finally"]
             [] chrome.sqlite = "execute fails" ->
                    [chrome EXCEPT !.conn_open = TRUE,
                                   !.pending = "sqlite3.Error", !.pc = "finally"]
    /\ ChromeOnly

\* os.unlink of a file that a connection of this process still holds open: a
\* PermissionError on win32 (sqlite opens its files without delete sharing),
\* a removal elsewhere
UnlinkRaises(c) == c.conn_open /\ c.platform = "win32"

\* lines 127-130, the finally clause: the copy is removed if it exists.  An
\* exception raised here takes the place of the pending one; otherwise the
\* pending return or exception goes on
ChromeFinally ==
    /\ chrome.pc = "finally"
    /\ IF chrome.temp = "exists" /\ UnlinkRaises(chrome)
       THEN chrome' = [chrome EXCEPT !.pending = "PermissionError", !.result = None,
                                     !.pc = "except"]
       ELSE chrome' = [chrome EXCEPT
                          !.temp = IF @ = "exists" THEN "removed" ELSE @,
                          !.pc = IF chrome.pending = "return" THEN "returned" ELSE "except"]
    /\ ChromeOnly

\* lines 132-137: the except clauses report and exit with status 1
ChromeExcept ==
    /\ chrome.pc = "except"
    /\ chrome' = [chrome EXCEPT
                     !.printed = Append(@, IF chrome.pending = "sqlite3.Error"
                                           THEN "[ERROR] Database error"
                                           ELSE "[ERROR] Unexpected error"),
                     !.exit_status = Some(1),
                     !.pc = "exited"]
    /\ ChromeOnly

NextChrome ==
    \/ ChromeCheck
    \/ ChromeMakeTemp
    \/ ChromeCopy
    \/ ChromeQuery
    \/ ChromeFinally
    \/ ChromeExcept

\* a database that does not exist cannot be copied and holds nothing
InitChrome ==
    /\ ResumeIdle
    /\ chrome \in {c \in [pc : {"start"}, platform : Platforms, db_exists : BOOLEAN,
                          copy_ok : BOOLEAN,
                          sqlite : {"ok", "connect fails", "execute fails"},
                          rows : HistoryRows, limit : HistoryLimits,
                          temp : {"none"}, conn_open : {FALSE}, pending : {"none"},
                          result : {None}, printed : {<<>>}, exit_status : {None}] :
                      /\ ~c.db_exists => (~c.copy_ok /\ c.rows = <<>>)
                      /\ c.sqlite # "ok" => c.rows = <<>>}
    /\ qr = Idle
    /\ video = Idle
    /\ table = Idle
    /\ deps = Idle

SpecChrome == InitChrome /\ [][NextChrome]_vars

---------------------------------------------------------------------------
(* extract_video_id, src/Articles-pod.py lines 1564-1587.                  *)

\* a literal as pattern items, one character each
Lit(l) == [n \in 1..Len(l) |-> Ch(l[n])]

\* [^&\n?] over the characters of the text searched
NotIdStop(t) == {t[n] : n \in 1..Len(t)} \ {"&", "\n", "?"}

\* [a-zA-Z0-9_-]
IdChars == Alnum \cup {"_", "-"}

\* the group-carrying patterns of lines 1576-1577 as the alternatives of
\* their prefix, in the order the engine tries them; the group ([^&\n?]*)
\* follows each prefix
video_prefixes ==
    << << <<"y", "o", "u", "t", "u", "b", "e", ".", "c", "o", "m", "/", "w", "a", "t", "c", "h", "?", "v", "=">>, <<"y", "o", "u", "t", "u", ".", "b", "e", "/">> >>,
       << <<"y", "o", "u", "t", "u", "b", "e", ".", "c", "o", "m", "/", "e", "m", "b", "e", "d", "/">> >> >>

\* where prefix alternative l then ([^&\n?]*) matches from pos, 0 if nowhere
PrefixMatch(l, t, pos) == MatchHere(Lit(l) \o << Star(NotIdStop(t)) >>, 1, t, pos)

\* the alternatives of pattern k that match at pos, as indices, in order
AltsAt(k, t, pos) ==
    {n \in 1..Len(video_prefixes[k]) : PrefixMatch(video_prefixes[k][n], t, pos) # 0}

\* re.search(patterns[k], url).group(1) for k = 1, 2: the leftmost position
\* where an alternative matches, its first alternative there, and what the
\* greedy group took; None when the pattern matches nowhere
SearchPrefixed(k, t) ==
    LET starts == {p \in 1..(Len(t) + 1) : AltsAt(k, t, p) # {}}
    IN  IF starts = {} THEN None
        ELSE LET s == CHOOSE p \in starts : \A q \in starts : p <= q
                 n == CHOOSE m \in AltsAt(k, t, s) : \A o \in AltsAt(k, t, s) : m <= o
                 l == video_prefixes[k][n]
             IN  Some(SubSeq(t, s + Len(l), PrefixMatch(l, t, s) - 1))

\* re.search(r'^([a-zA-Z0-9_-]{11})$', url).group(1): the whole text is an
\* 11-character ID; $ also matches before a newline that ends the text
SearchBareId(t) ==
    LET e == MatchHere(<< Cls(IdChars, 11, 11) >>, 1, t, 1)
    IN  IF e = 12 /\ (Len(t) = 11 \/ (Len(t) = 12 /\ t[12] = "\n"))
        THEN Some(SubSeq(t, 1, 11)) ELSE None

\* match.group(1) of the k-th pattern of the list, None without a match
SearchPattern(k, t) == IF k <= Len(video_prefixes) THEN SearchPrefixed(k, t) ELSE SearchBareId(t)

\* the number of patterns in the list
NumPatterns == Len(video_prefixes) + 1

VideoOnly == UNCHANGED <<resume, qr, chrome, table, deps>>

\* lines 1581-1584: one turn of the loop; the first match returns its group
VideoTry ==
    /\ video.pc = "loop"
    /\ video.k <= NumPatterns
    /\ LET m == SearchPattern(video.k, video.url)
       IN  IF m # None
           THEN video' = [video EXCEPT !.result = m, !.pc = "returned"]
           ELSE video' = [video EXCEPT !.k = @ + 1]
    /\ VideoOnly

\* lines 1586-1587: no pattern matched
VideoFail ==
    /\ video.pc = "loop"
    /\ video.k > NumPatterns
    /\ video' = [video EXCEPT
                    !.printed = Append(@, "[ERROR] Could not extract video ID from"),
                    !.exit_status = Some(1),
                    !.pc = "exited"]
    /\ VideoOnly

NextVideo ==
    \/ VideoTry
    \/ VideoFail

VideoPieces ==
    { <<"h", "t", "t", "p", "s", ":", "/", "/">>, <<"y", "o", "u", "t", "u", "b", "e", ".", "c", "o", "m", "/", "w", "a", "t", "c", "h", "?", "v", "=">>, <<"y", "o", "u", "t", "u", ".", "b", "e", "/">>, <<"y", "o", "u", "t", "u", "b", "e", ".", "c", "o", "m", "/", "e", "m", "b", "e", "d", "/">>,
      <<"d", "Q", "w", "4", "w", "9", "W", "g", "X", "c", "Q">>, <<"&", "t", "=", "1">>, <<"\n">>, <<"x">> }

InitVideo ==
    /\ ResumeIdle
    /\ video \in [url : Compose(VideoPieces, MaxPieces), pc : {"loop"}, k : {1},
                  result : {None}, printed : {<<>>}, exit_status : {None}]
    /\ qr = Idle
    /\ chrome = Idle
    /\ table = Idle
    /\ deps = Idle

SpecVideo == InitVideo /\ [][NextVideo]_vars

---------------------------------------------------------------------------
(* format_table, csv_to_markdown and json_to_markdown,                     *)
(* src/Articles-pod.py lines 549-716.  A table is kept as its lines, each  *)
(* the list of its cells; LineText is the string the code builds of one.   *)

Max2(x, y) == IF x < y THEN y ELSE x

\* f"{s:<{w}}": s padded with spaces on the right to w characters
PadLeft(s, w) == s \o [n \in 1..(w - Len(s)) |-> " "]

\* '-' * n
Dashes(n) == [m \in 1..n |-> "-"]

\* the widths of lines 569-572, given no row is longer than the headers
Widths(data, headers) ==
    [i \in 1..Len(headers) |->
        LET cells == {Len(data[r][i]) : r \in {q \in 1..Len(data) : Len(data[q]) >= i}}
        IN  IF cells = {} THEN Len(headers[i])
            ELSE Max2(Len(headers[i]), CHOOSE w \in cells : \A v \in cells : v <= w)]

\* lines 585-590: the separator cell of one column
SepCell(align, width) ==
    IF align = "center" THEN <<":">> \o Dashes(width) \o <<":">>
    ELSE IF align = "right" THEN Dashes(width + 1) \o <<":">>
    ELSE <<":">> \o Dashes(width + 1)

\* f" {cell:<{width}} "
PadCell(cell, width) == <<" ">> \o PadLeft(cell, width) \o <<" ">>

\* format_table(data, headers, alignment), lines 565-599: the lines of the
\* table, or the IndexError of widths[i] for a row (line 572) or an
\* alignment (line 584) that is longer than the headers
format_table(data, headers, alignment) ==
    LET aligns == IF alignment = <<>> THEN [i \in 1..Len(headers) |-> "left"]
                  ELSE alignment
        widths == Widths(data, headers)
    IN  IF \E r \in 1..Len(data) : Len(data[r]) > Len(headers) THEN Raise("IndexError")
        ELSE IF Len(aligns) > Len(headers) THEN Raise("IndexError")
        ELSE Ret(<< [i \in 1..Len(headers) |-> PadCell(headers[i], widths[i])],
                    [i \in 1..Len(aligns) |-> SepCell(aligns[i], widths[i])] >>
                 \o [r \in 1..Len(data) |->
                        [i \in 1..Len(data[r]) |-> PadCell(data[r][i], widths[i])]])

RECURSIVE JoinCells(_, _)
\* "|".join(cells[n..])
JoinCells(cells, n) ==
    IF n > Len(cells) THEN <<>>
    ELSE IF n = Len(cells) THEN cells[n]
    ELSE cells[n] \o <<"|">> \o JoinCells(cells, n + 1)

\* "|" + "|".join(cells) + "|"
LineText(cells) == <<"|">> \o JoinCells(cells, 1) \o <<"|">>

\* lines 631-635 and 691-695: the alignment string as a list, None without one
align_map(c) ==
    CASE LowerChar(c) = "l" -> "left"
      [] LowerChar(c) = "c" -> "center"
      [] LowerChar(c) = "r" -> "right"
      [] OTHER -> "left"

ParseAlignment(alignment) ==
    IF alignment = None \/ alignment = Some(<<>>) THEN None
    ELSE [n \in 1..Len(alignment[1]) |-> align_map(alignment[1][n])]

\* obj.get(h, ""), an object being its key-value pairs in order
ObjGet(obj, h) ==
    IF \E n \in 1..Len(obj) : obj[n][1] = h
    THEN obj[CHOOSE n \in 1..Len(obj) : obj[n][1] = h][2]
    ELSE <<>>

\* lines 627-628 and 684-688: the headers and the data rows of the input
TableHeaders(t) ==
    IF t.caller = "csv_to_markdown" THEN t.rows[1]
    ELSE [n \in 1..Len(t.rows[1]) |-> t.rows[1][n][1]]

TableData(t) ==
    IF t.caller = "csv_to_markdown" THEN SubSeq(t.rows, 2, Len(t.rows))
    ELSE [r \in 1..Len(t.rows) |->
             [n \in 1..Len(TableHeaders(t)) |-> ObjGet(t.rows[r], TableHeaders(t)[n])]]

TableOnly == UNCHANGED <<resume, qr, chrome, video, deps>>

\* lines 619-625 and 672-682: the file is read; an empty one, or JSON that
\* is no array, ends the call (SystemExit passes the except clauses)
TableRead ==
    /\ table.pc = "start"
    /\ IF ~table.is_list
       THEN table' = [table EXCEPT !.printed = Append(@, "[ERROR] JSON must be an array of objects"),
                                   !.exit_status = Some(1), !.pc = "exited"]
       ELSE IF table.rows = <<>>
       THEN table' = [table EXCEPT
                         !.printed = Append(@, IF table.caller = "csv_to_markdown"
                                               THEN "[ERROR] CSV file is empty"
                                               ELSE "[ERROR] JSON array is empty"),
                         !.exit_status = Some(1), !.pc = "exited"]
       ELSE table' = [table EXCEPT !.pc = "format"]
    /\ TableOnly

\* lines 627-637 and 684-697: headers, data, alignment, format_table; an
\* exception goes to the except clause
TableFormat ==
    /\ table.pc = "format"
    /\ LET r == format_table(TableData(table), TableHeaders(table),
                             ParseAlignment(table.alignment))
       IN  IF r.exc = "none"
           THEN table' = [table EXCEPT !.lines = r.val, !.pc = "emit"]
           ELSE table' = [table EXCEPT !.pending = r.exc, !.pc = "except"]
    /\ TableOnly

\* lines 639-647 and 699-706: the table is printed and returned
TableEmit ==
    /\ table.pc = "emit"
    /\ table' = [table EXCEPT
                    !.printed = @ \o [n \in 1..Len(table.lines) |-> LineText(table.lines[n])],
                    !.result = Some(table.lines),
                    !.pc = "returned"]
    /\ TableOnly

\* lines 652-654 and 714-716: except Exception
TableExcept ==
    /\ table.pc = "except"
    /\ table' = [table EXCEPT
                    !.printed = Append(@, IF table.caller = "csv_to_markdown"
                                          THEN "[ERROR] Failed to convert CSV"
                                          ELSE "[ERROR] Failed to convert JSON"),
                    !.exit_status = Some(1), !.pc = "exited"]
    /\ TableOnly

NextTable ==
    \/ TableRead
    \/ TableFormat
    \/ TableEmit
    \/ TableExcept

\* rows of a CSV file: the first one read is the header row
CsvRows == { << <<"a">> >>, << <<"a">>, <<"b", "b">> >>, << <<"c", "c", "c">>, <<"a">>, <<"b", "b">> >> }

\* objects of a JSON array, as key-value pairs in the order of the file
JsonObjects ==
    { << << <<"a">>, <<"x">> >> >>,
      << << <<"a">>, <<"x">> >>, << <<"b", "b">>, <<"y", "y", "y">> >> >>,
      << << <<"b", "b">>, <<"y", "y", "y", "y">> >> >> }

\* the -a option: absent, or a string
Alignments == { None, Some(<<>>), Some(<<"l">>), Some(<<"c", "R">>), Some(<<"r", "x", "l">>), Some(<<"l", "c", "r", "l">>) }

InitTable ==
    /\ ResumeIdle
    /\ table \in
          [caller : {"csv_to_markdown"}, is_list : {TRUE},
           rows : Compose({<<r>> : r \in CsvRows}, MaxPieces),
           alignment : Alignments, pc : {"start"}, lines : {<<>>}, pending : {"none"},
           result : {None}, printed : {<<>>}, exit_status : {None}]
          \cup
          [caller : {"json_to_markdown"}, is_list : {TRUE},
           rows : Compose({<<o>> : o \in JsonObjects}, MaxPieces),
           alignment : Alignments, pc : {"start"}, lines : {<<>>}, pending : {"none"},
           result : {None}, printed : {<<>>}, exit_status : {None}]
          \cup
          [caller : {"json_to_markdown"}, is_list : {FALSE}, rows : {<<>>},
           alignment : Alignments, pc : {"start"}, lines : {<<>>}, pending : {"none"},
           result : {None}, printed : {<<>>}, exit_status : {None}]
    /\ qr = Idle
    /\ chrome = Idle
    /\ video = Idle
    /\ deps = Idle

SpecTable == InitTable /\ [][NextTable]_vars

---------------------------------------------------------------------------
(* extract_dependencies, src/script_generator.py lines 160-190.            *)

stdlib ==
    { <<"a", "b", "c">>, <<"a", "r", "g", "p", "a", "r", "s", "e">>, <<"a", "s", "y", "n", "c", "i", "o">>, <<"b", "a", "s", "e", "6", "4">>, <<"c", "o", "l", "l", "e", "c", "t", "i", "o", "n", "s">>, <<"c", "s", "v">>,
      <<"d", "a", "t", "e", "t", "i", "m", "e">>, <<"e", "m", "a", "i", "l">>, <<"f", "u", "n", "c", "t", "o", "o", "l", "s">>, <<"h", "a", "s", "h", "l", "i", "b">>, <<"h", "t", "t", "p">>, <<"i", "o">>, <<"i", "t", "e", "r", "t", "o", "o", "l", "s">>,
      <<"j", "s", "o", "n">>, <<"l", "o", "g", "g", "i", "n", "g">>, <<"m", "a", "t", "h">>, <<"o", "s">>, <<"p", "a", "t", "h", "l", "i", "b">>, <<"r", "a", "n", "d", "o", "m">>, <<"r", "e">>, <<"s", "h", "u", "t", "i", "l">>,
      <<"s", "o", "c", "k", "e", "t">>, <<"s", "q", "l", "i", "t", "e", "3">>, <<"s", "t", "r", "i", "n", "g">>, <<"s", "u", "b", "p", "r", "o", "c", "e", "s", "s">>, <<"s", "y", "s">>, <<"t", "e", "m", "p", "f", "i", "l", "e">>,
      <<"t", "h", "r", "e", "a", "d", "i", "n", "g">>, <<"t", "i", "m", "e">>, <<"t", "y", "p", "i", "n", "g">>, <<"u", "r", "l", "l", "i", "b">>, <<"u", "u", "i", "d">>, <<"w", "a", "r", "n", "i", "n", "g", "s">>, <<"x", "m", "l">> }

\* package_map.get(module, module)
package_map(module) ==
    CASE module = <<"P", "I", "L">> -> <<"P", "i", "l", "l", "o", "w">>
      [] module = <<"c", "v", "2">> -> <<"o", "p", "e", "n", "c", "v", "-", "p", "y", "t", "h", "o", "n">>
      [] module = <<"b", "s", "4">> -> <<"b", "e", "a", "u", "t", "i", "f", "u", "l", "s", "o", "u", "p", "4">>
      [] module = <<"d", "o", "c", "x">> -> <<"p", "y", "t", "h", "o", "n", "-", "d", "o", "c", "x">>
      [] OTHER -> module

\* the alternatives of (?:from|import), in the order the engine tries them
import_keywords == << <<"f", "r", "o", "m">>, <<"i", "m", "p", "o", "r", "t">> >>

\* one alternative of import_pattern: the keyword, \s+, ([a-zA-Z0-9_]+)
import_pattern(keyword) == Lit(keyword) \o << Plus(Whitespace), Plus(WordChar) >>

\* where the match of import_pattern that starts at pos ends, 0 without one
ImportEnd(t, pos) ==
    LET first == MatchHere(import_pattern(import_keywords[1]), 1, t, pos)
    IN  IF first # 0 THEN first
        ELSE MatchHere(import_pattern(import_keywords[2]), 1, t, pos)

\* group 1 of the match at pos: the word after the keyword and the whitespace
ImportGroup(t, pos) ==
    LET keyword == IF LitAt(t, pos, import_keywords[1]) THEN import_keywords[1]
                   ELSE import_keywords[2]
        word == pos + Len(keyword) + RunLen(Whitespace, t, pos + Len(keyword), 0 - 1)
    IN  SubSeq(t, word, ImportEnd(t, pos) - 1)

RECURSIVE ImportScan(_, _)
\* re.findall(import_pattern, code) from pos on: the group of the leftmost
\* match, then those found from its end on
ImportScan(t, pos) ==
    LET ahead == {p \in pos..Len(t) : ImportEnd(t, p) # 0}
    IN  IF ahead = {} THEN <<>>
        ELSE LET s == CHOOSE p \in ahead : \A q \in ahead : p <= q
             IN  << ImportGroup(t, s) >> \o ImportScan(t, ImportEnd(t, s))

\* the characters of the package names in code point order
CodePoints ==
    <<"-">> \o <<"0", "1", "2", "3", "4", "5", "6", "7", "8", "9">> \o UpperSeq \o <<"_">> \o LowerSeq

CodePoint(c) == CHOOSE n \in 1..Len(CodePoints) : CodePoints[n] = c

RECURSIVE StrLess(_, _)
\* a < b as Python compares strings
StrLess(x, y) ==
    IF y = <<>> THEN FALSE
    ELSE IF x = <<>> THEN TRUE
    ELSE IF x[1] = y[1] THEN StrLess(Tail(x), Tail(y))
    ELSE CodePoint(x[1]) < CodePoint(y[1])

RECURSIVE sorted(_)
\* sorted(list(S))
sorted(S) ==
    IF S = {} THEN <<>>
    ELSE LET least == CHOOSE x \in S : \A y \in S \ {x} : StrLess(x, y)
         IN  << least >> \o sorted(S \ {least})

DepsOnly == UNCHANGED <<resume, qr, chrome, video, table>>

\* lines 171-175: dependencies = set(); matches = re.findall(...)
DepsFind ==
    /\ deps.pc = "start"
    /\ deps' = [deps EXCEPT !.matches = ImportScan(deps.code, 1), !.pc = "loop"]
    /\ DepsOnly

\* lines 177-188: one turn of the loop over the matches
DepsAdd ==
    /\ deps.pc = "loop"
    /\ deps.matches # <<>>
    /\ LET module == Head(deps.matches)
       IN  deps' = [deps EXCEPT
                       !.dependencies = IF module \notin stdlib
                                        THEN @ \cup {package_map(module)} ELSE @,
                       !.matches = Tail(@)]
    /\ DepsOnly

\* line 190: return sorted(list(dependencies))
DepsReturn ==
    /\ deps.pc = "loop"
    /\ deps.matches = <<>>
    /\ deps' = [deps EXCEPT !.result = Some(sorted(deps.dependencies)), !.pc = "returned"]
    /\ DepsOnly

NextDeps ==
    \/ DepsFind
    \/ DepsAdd
    \/ DepsReturn

\* lines of generated scripts
CodePieces ==
    { <<"f", "r", "o", "m", " ", "p", "a", "t", "h", "l", "i", "b", " ", "i", "m", "p", "o", "r", "t", " ", "P", "a", "t", "h">>, <<"i", "m", "p", "o", "r", "t", " ", "r", "e", "q", "u", "e", "s", "t", "s">>, <<"i", "m", "p", "o", "r", "t", " ", "o", "s">>, <<"i", "m", "p", "o", "r", "t", " ", "c", "v", "2">>,
      <<"f", "r", "o", "m", " ", "P", "I", "L", " ", "i", "m", "p", "o", "r", "t", " ", "I", "m", "a", "g", "e">>, <<"#", " ", "i", "m", "p", "o", "r", "t", " ", "t", "h", "i", "s">>, <<"\n">> }

InitDeps ==
    /\ ResumeIdle
    /\ deps \in [code : Compose(CodePieces, MaxPieces), pc : {"start"}, matches : {<<>>},
                 dependencies : {{}}, result : {None}]
    /\ qr = Idle
    /\ chrome = Idle
    /\ video = Idle
    /\ table = Idle

SpecDeps == InitDeps /\ [][NextDeps]_vars

---------------------------------------------------------------------------
(* What the claims are stated with: the matches of a pattern as its        *)
(* language gives them, and lines, tokens and containment by position.     *)

\* the least element of a non-empty set of numbers
Least(S) == CHOOSE i \in S : \A j \in S : i <= j

\* m is a match of the pattern that starts where its leftmost match starts
IsFirstMatch(re, t, m) ==
    LET starts == MatchStarts(re, t)
    IN  /\ starts # {}
        /\ LET first == Least(starts)
           IN  LitAt(t, first, m) /\ IsMatch(re, t, first, first + Len(m))

RECURSIVE IsScan(_, _, _, _, _)
\* result[k..] are the non-overlapping matches of the pattern from position
\* p on, in document order: each starts at the leftmost start from where the
\* one before ended, and no match starts after the last
IsScan(re, t, result, k, p) ==
    LET starts == {i \in MatchStarts(re, t) : i >= p}
    IN  IF k > Len(result) THEN starts = {}
        ELSE /\ starts # {}
             /\ LET first == Least(starts)
                IN  /\ LitAt(t, first, result[k])
                    /\ IsMatch(re, t, first, first + Len(result[k]))
                    /\ IsScan(re, t, result, k + 1, first + Len(result[k]))

\* sub occurs in s, letter case aside
ContainsNoCase(s, sub) ==
    \E i \in 0..(Len(s) - Len(sub)) :
        \A j \in 1..Len(sub) : LowerChar(s[i + j]) = LowerChar(sub[j])

\* the positions at which a line of t starts
LineStarts(t) == {1} \cup {i + 1 : i \in {n \in 1..Len(t) : t[n] = "\n"}}

\* where the line that starts at s ends (the position before its newline)
LineEnd(t, s) ==
    LET nl == {n \in s..Len(t) : t[n] = "\n"}
    IN  IF nl = {} THEN Len(t) ELSE Least(nl) - 1

\* the line of t that starts at s
LineAt(t, s) == SubSeq(t, s, LineEnd(t, s))

\* the positions of s that hold something other than whitespace
InkOf(s) == {i \in 1..Len(s) : s[i] \notin Whitespace}

\* l is s trimmed: s from its first to its last non-whitespace character
IsTrimOf(l, s) ==
    IF InkOf(s) = {} THEN l = <<>>
    ELSE LET a == Least(InkOf(s))
             b == CHOOSE i \in InkOf(s) : \A j \in InkOf(s) : j <= i
         IN  Len(l) = b - a + 1 /\ \A i \in 1..Len(l) : l[i] = s[a + i - 1]

\* how many whitespace-delimited tokens s has
TokenCount(s) ==
    Cardinality({i \in InkOf(s) : i = 1 \/ s[i - 1] \in Whitespace})

\* the elements of a list
Range(list) == {list[n] : n \in 1..Len(list)}

---------------------------------------------------------------------------
(* The claims.                                                             *)

\* the international number and the bare one of the phone example
IntlPhone == <<"+", "1", " ", "(", "5", "5", "5", ")", " ", "1", "2", "3", "-", "4", "5", "6", "7">>

BarePhone == <<"5", "5", "5", "1", "2", "3", "4", "5", "6", "7">>

\* the patterns of phone_patterns that match somewhere in the text
PhoneHits(t) == {k \in 1..Len(phone_patterns) : MatchStarts(phone_patterns[k], t) # {}}

\* C1: extract_phone selects by pattern priority, not document position: the
\* result is the first match in document order of the earliest pattern of
\* phone_patterns that matches anywhere in the text, and is absent only when
\* no pattern matches.  A text that holds both "+1 (555) 123-4567" and a bare
\* "5551234567", in either order, yields a match of the international pattern.
C1_PhonePatternPriority ==
    Done =>
        /\ LET hits == PhoneHits(text)
           IN  IF hits = {} THEN resume_data.phone = None
               ELSE /\ Len(resume_data.phone) = 1
                    /\ IsFirstMatch(phone_patterns[Least(hits)], text,
                                    resume_data.phone[1])
        /\ (StrIn(IntlPhone, text) /\ StrIn(BarePhone, text)) =>
               /\ Len(resume_data.phone) = 1
               /\ IsFirstMatch(phone_patterns[1], text, resume_data.phone[1])
               /\ resume_data.phone # Some(BarePhone)
        /\ text \in {IntlPhone \o <<" ">> \o BarePhone, BarePhone \o <<" ">> \o IntlPhone} =>
               resume_data.phone = Some(IntlPhone)

\* C1 witness: the bare number comes first in the text and the international
\* one, matched by the earlier pattern, is returned
C1_Witness ==
    /\ Done
    /\ text = BarePhone \o <<" ">> \o IntlPhone
    /\ resume_data.phone = Some(IntlPhone)

\* the first line of t that is not empty once trimmed starts at s
IsFirstInkLine(t, s) ==
    /\ s \in LineStarts(t)
    /\ InkOf(LineAt(t, s)) # {}
    /\ \A r \in LineStarts(t) : r < s => InkOf(LineAt(t, r)) = {}

\* the job-title words of the name filter
TitleWords == {<<"e", "n", "g", "i", "n", "e", "e", "r">>, <<"d", "e", "v", "e", "l", "o", "p", "e", "r">>, <<"m", "a", "n", "a", "g", "e", "r">>, <<"s", "p", "e", "c", "i", "a", "l", "i", "s", "t">>}

\* the line is taken for a name: at most 4 tokens, no job-title word
NameLike(line) ==
    /\ TokenCount(line) <= 4
    /\ \A w \in TitleWords : ~ContainsNoCase(line, w)

\* C2: extract_name considers only the first line that is non-empty after
\* trimming: it returns that line trimmed if and only if the line has at most
\* 4 whitespace-delimited tokens and holds, letter case aside, none of
\* "engineer", "developer", "manager", "specialist"; otherwise (candidate
\* rejected, or no non-empty line) it returns absent, whatever later lines hold.
C2_NameFirstLineOnly ==
    Done =>
        IF \E s \in LineStarts(text) : IsFirstInkLine(text, s)
        THEN LET line == LineAt(text, CHOOSE s \in LineStarts(text) : IsFirstInkLine(text, s))
             IN  IF NameLike(line)
                 THEN /\ Len(resume_data.name) = 1
                      /\ IsTrimOf(resume_data.name[1], line)
                 ELSE resume_data.name = None
        ELSE resume_data.name = None

\* C2 witness: the first line is a job title and the next one would pass:
\* the result is absent
C2_Witness ==
    /\ Done
    /\ text = <<"S", "o", "f", "t", "w", "a", "r", "e", " ", "E", "n", "g", "i", "n", "e", "e", "r", "\n", "J", "a", "n", "e", " ", "D", "o", "e">>
    /\ resume_data.name = None

\* C3: extract_skills returns exactly the title-cased forms of the keywords
\* of the vocabulary that occur in the text as a substring, letter case aside
\* and with no word-boundary check, each at most once.
C3_SkillsExactlyContained ==
    Done =>
        /\ \A n \in 1..Len(skill_keywords) :
               StrTitle(skill_keywords[n]) \in Range(resume_data.skills)
                   <=> ContainsNoCase(text, skill_keywords[n])
        /\ \A x \in Range(resume_data.skills) :
               \E n \in 1..Len(skill_keywords) : x = StrTitle(skill_keywords[n])
        /\ Cardinality(Range(resume_data.skills)) = Len(resume_data.skills)

\* C3 witness: "Java" is reported for a text that holds it only inside
\* "javascript", next to a capitalised "Python"
C3_Witness ==
    /\ Done
    /\ text = <<"P", "y", "t", "h", "o", "n", "j", "a", "v", "a", "s", "c", "r", "i", "p", "t">>
    /\ Range(resume_data.skills) = {<<"P", "y", "t", "h", "o", "n">>, <<"J", "a", "v", "a", "s", "c", "r", "i", "p", "t">>, <<"J", "a", "v", "a">>}
    /\ Len(resume_data.skills) = 3

\* the starts of the lines that hold an education word, letter case aside
EducationStarts(t) ==
    {s \in LineStarts(t) :
        \E w \in Range(education_keywords) : ContainsNoCase(LineAt(t, s), w)}

\* the k-th smallest element of a set of numbers
Kth(S, k) == CHOOSE i \in S : Cardinality({j \in S : j <= i}) = k

\* C4: extract_education returns one entry for every newline-delimited line
\* whose lowercased content holds an education keyword and none for any
\* other line; the entries are in the order of the lines, each the line
\* trimmed and otherwise verbatim, and a repeated line is a repeated entry.
C4_EducationLines ==
    Done =>
        LET starts == EducationStarts(text)
        IN  /\ Len(resume_data.education) = Cardinality(starts)
            /\ \A k \in 1..Len(resume_data.education) :
                   IsTrimOf(resume_data.education[k], LineAt(text, Kth(starts, k)))

\* C4 witness: two equal lines, padded with blanks, give two equal trimmed entries
C4_Witness ==
    /\ Done
    /\ text = <<" ", "P", "h", "D", " ", "\n", " ", "P", "h", "D", " ">>
    /\ resume_data.education = <<<<"P", "h", "D">>, <<"P", "h", "D">>>>

\* C5: the preview (raw_text) is the text unmodified when the text has at
\* most 500 characters, exactly 500 included, and its first 500 characters
\* followed by "..." when it is longer; it never has more than 503 characters.
C5_PreviewTruncation ==
    Done =>
        /\ Len(text) <= 500 => resume_data.raw_text = text
        /\ Len(text) > 500 =>
               /\ Len(resume_data.raw_text) = 503
               /\ \A i \in 1..500 : resume_data.raw_text[i] = text[i]
               /\ \A i \in 501..503 : resume_data.raw_text[i] = "."
        /\ Len(resume_data.raw_text) <= 503

\* C5 witness: a text longer than 500 characters has been cut
C5_Witness ==
    /\ Done
    /\ Len(text) > 500
    /\ Len(resume_data.raw_text) = 503

\* s is a well-formed address: a local part over [A-Za-z0-9._%+-], "@", a
\* domain over [A-Za-z0-9.-], ".", and a top-level label of 2 letters or more
WellFormedEmail(s) ==
    \E at \in 2..Len(s), dot \in 3..Len(s) :
        /\ s[at] = "@" /\ s[dot] = "." /\ at + 1 < dot /\ dot + 2 <= Len(s)
        /\ \A i \in 1..(at - 1) : s[i] \in Alnum \cup {".", "_", "%", "+", "-"}
        /\ \A i \in (at + 1)..(dot - 1) : s[i] \in Alnum \cup {".", "-"}
        /\ \A i \in (dot + 1)..Len(s) : s[i] \in Alpha

\* text[i..j-1] is a well-formed address
HoldsEmailAt(t, i, j) == WellFormedEmail(SubSeq(t, i, j - 1))

\* the spans of t that are well-formed addresses
EmailSpans(t) ==
    {sp \in (1..Len(t)) \X (1..(Len(t) + 1)) : sp[1] < sp[2] /\ HoldsEmailAt(t, sp[1], sp[2])}

\* C6 as claimed: for every text that contains a well-formed email address
\* the result of extract_email is present and is the first match of the
\* email pattern in document order.
C6_Original ==
    (Done /\ EmailSpans(text) # {}) =>
        /\ Len(resume_data.email) = 1
        /\ IsFirstMatch(email_pattern, text, resume_data.email[1])

\* C6 amended: for every text that contains a well-formed email address
\* that starts and ends at a word boundary, the result of extract_email is
\* present and is the first match of the email pattern in document order.
C6_EmailFoundAtBoundaries ==
    (Done /\ \E sp \in EmailSpans(text) : AtBoundary(text, sp[1]) /\ AtBoundary(text, sp[2])) =>
        /\ Len(resume_data.email) = 1
        /\ IsFirstMatch(email_pattern, text, resume_data.email[1])

\* C6 witness: of two addresses the first in the text is returned
C6_Witness ==
    /\ Done
    /\ text = <<"c", "@", "d", ".", "i", "o", " ", "a", "@", "b", ".", "c", "o">>
    /\ resume_data.email = Some(<<"c", "@", "d", ".", "i", "o">>)

\* C7: extract_email returns absent exactly when the text holds no match of
\* the email pattern; for a text without "@" the result is absent.
C7_EmailAbsentIffNoMatch ==
    Done =>
        /\ resume_data.email = None <=> MatchStarts(email_pattern, text) = {}
        /\ "@" \notin Range(text) => resume_data.email = None

\* C7 witness: a text without "@" has given no email
C7_Witness ==
    /\ Done
    /\ Len(text) > 0
    /\ "@" \notin Range(text)
    /\ resume_data.email = None

\* C8 as claimed: a value returned by extract_email is a well-formed address,
\* its top-level label made of 2 or more letters and of letters only.
C8_EmailValid ==
    (Done /\ resume_data.email # None) => WellFormedEmail(resume_data.email[1])

\* C9: extract_urls returns all the non-overlapping matches of the URL
\* pattern in document order, a repeated URL as often as it is matched, and
\* the empty list when the text has no match.
C9_UrlsAllMatchesInOrder ==
    Done =>
        /\ IsScan(url_pattern, text, resume_data.urls, 1, 1)
        /\ MatchStarts(url_pattern, text) = {} => resume_data.urls = <<>>

\* C9 witness: the same URL twice in the text is twice in the result
C9_Witness ==
    /\ Done
    /\ text = <<"h", "t", "t", "p", ":", "/", "/", "a", ".", "c", "o", " ", "h", "t", "t", "p", ":", "/", "/", "a", ".", "c", "o">>
    /\ resume_data.urls = <<<<"h", "t", "t", "p", ":", "/", "/", "a", ".", "c", "o">>, <<"h", "t", "t", "p", ":", "/", "/", "a", ".", "c", "o">>>>

\* C10: no extractor raises, whatever the text: every call returns a value,
\* and for the empty text the values are absent, absent, absent, empty, empty
\* and empty, with an empty preview.
C10_NoExtractorRaises ==
    /\ exc = "none"
    /\ pc # "raised"
    /\ (Done /\ text = <<>>) =>
           /\ resume_data.name = None
           /\ resume_data.email = None
           /\ resume_data.phone = None
           /\ resume_data.urls = <<>>
           /\ resume_data.skills = <<>>
           /\ resume_data.education = <<>>
           /\ resume_data.raw_text = <<>>

\* C10 witness: the record of the empty text is complete
C10_Witness ==
    /\ Done
    /\ text = <<>>
    /\ resume_data = EmptyRecord

\* the text has nothing the extractors look for: no match of the email, a
\* phone or the URL pattern, no skill and no education keyword
NothingToExtract(t) ==
    /\ MatchStarts(email_pattern, t) = {}
    /\ PhoneHits(t) = {}
    /\ MatchStarts(url_pattern, t) = {}
    /\ \A w \in Range(skill_keywords) \cup Range(education_keywords) :
           ~ContainsNoCase(t, w)

\* the fields other than the name are absent or empty
NothingButName(r) ==
    /\ r.email = None
    /\ r.phone = None
    /\ r.urls = <<>>
    /\ r.skills = <<>>
    /\ r.education = <<>>

\* C11 as claimed: a text in which no email, phone or URL pattern matches and
\* no skill or education keyword occurs gives a record with name, email and
\* phone absent and urls, skills and education empty.
C11_GarbageAllAbsent ==
    (Done /\ NothingToExtract(text)) =>
        /\ resume_data.name = None
        /\ NothingButName(resume_data)

\* C11: a text in which no email, phone or URL pattern matches and no skill or
\* education keyword occurs gives a record with email and phone absent and
\* urls, skills and education empty; its name is the first non-blank line
\* trimmed when that line has at most 4 tokens and no job-title word, and is
\* absent otherwise.
C11_GarbageKeepsOnlyName ==
    (Done /\ NothingToExtract(text)) =>
        /\ NothingButName(resume_data)
        /\ IF \E s \in LineStarts(text) :
                  IsFirstInkLine(text, s) /\ NameLike(LineAt(text, s))
           THEN /\ Len(resume_data.name) = 1
                /\ \E s \in LineStarts(text) :
                       /\ IsFirstInkLine(text, s)
                       /\ IsTrimOf(resume_data.name[1], LineAt(text, s))
           ELSE resume_data.name = None

\* C11 witness: a text of punctuation has nothing to extract, and its first
\* line is returned as the name
C11_Witness ==
    /\ Done
    /\ text = <<"#", "~", "\n", "@">>
    /\ NothingToExtract(text)
    /\ resume_data.name = Some(<<"#", "~">>)
    /\ NothingButName(resume_data)

\* C19: in extract_phone the third (plain 10-digit) pattern never determines
\* the result: a text the third pattern matches is matched by the second, and
\* so is a text the first pattern matches; extract_phone returns absent if and
\* only if the second pattern has no match in the text.
C19_ThirdPatternNeverDecides ==
    Done =>
        LET hits == PhoneHits(text)
        IN  /\ 3 \in hits => 2 \in hits
            /\ 1 \in hits => 2 \in hits
            /\ hits # {} => Least(hits) # 3
            /\ resume_data.phone = None <=> 2 \notin hits

\* C19 witness: the bare number is matched by the third pattern and by the
\* second, which returns it
C19_Witness ==
    /\ Done
    /\ text = BarePhone
    /\ PhoneHits(text) = {2, 3}
    /\ resume_data.phone = Some(BarePhone)

\* sub is a run of consecutive characters of t
Occurs(sub, t) ==
    \E i \in 0..(Len(t) - Len(sub)) : \A j \in 1..Len(sub) : t[i + j] = sub[j]

\* C20: every extracted value occurs verbatim in the input: a name, an email
\* and a phone that are not absent, every element of urls and every element
\* of education are contiguous substrings of the text.
C20_ValuesOccurVerbatim ==
    Done =>
        /\ \A v \in Range(resume_data.name) \cup Range(resume_data.email)
                       \cup Range(resume_data.phone) : Occurs(v, text)
        /\ \A v \in Range(resume_data.urls) : Occurs(v, text)
        /\ \A v \in Range(resume_data.education) : Occurs(v, text)

\* C20 witness: a name and an education line, each cut out of a longer text
C20_Witness ==
    /\ Done
    /\ text = <<"J", "a", "n", "e", " ", "D", "o", "e", "\n", "P", "y", "t", "h", "o", "n", " ", "a", "t", " ", "S", "t", "a", "t", "e", " ", "U", "n", "i", "v", "e", "r", "s", "i", "t", "y">>
    /\ resume_data.name = Some(<<"J", "a", "n", "e", " ", "D", "o", "e">>)
    /\ resume_data.education = << <<"P", "y", "t", "h", "o", "n", " ", "a", "t", " ", "S", "t", "a", "t", "e", " ", "U", "n", "i", "v", "e", "r", "s", "i", "t", "y">> >>
    /\ Occurs(<<"J", "a", "n", "e", " ", "D", "o", "e">>, text)

\* the sentence of the skills example
SkillSentence == <<"E", "x", "p", "e", "r", "i", "e", "n", "c", "e", " ", "w", "i", "t", "h", " ", "P", "y", "t", "h", "o", "n", " ", "a", "n", "d", " ", "A", "W", "S">>

\* C14: for a text that contains "Experience with Python and AWS",
\* extract_skills reports "Python" and "Aws", the title case of the stored
\* keywords; it reports nothing else when the text is that sentence, and
\* whatever else it reports for a longer text is the title case of a keyword
\* the sentence does not hold.
C14_PythonAndAws ==
    (Done /\ Occurs(SkillSentence, text)) =>
        /\ {<<"P", "y", "t", "h", "o", "n">>, <<"A", "w", "s">>} \subseteq Range(resume_data.skills)
        /\ text = SkillSentence => Range(resume_data.skills) = {<<"P", "y", "t", "h", "o", "n">>, <<"A", "w", "s">>}
        /\ \A x \in Range(resume_data.skills) \ {<<"P", "y", "t", "h", "o", "n">>, <<"A", "w", "s">>} :
               \E w \in Range(skill_keywords) :
                   /\ x = StrTitle(w)
                   /\ ~ContainsNoCase(SkillSentence, w)
                   /\ ContainsNoCase(text, w)

\* C14 witness: the sentence alone gives the two skills, in either order
C14_Witness ==
    /\ Done
    /\ text = SkillSentence
    /\ resume_data.skills \in { <<<<"P", "y", "t", "h", "o", "n">>, <<"A", "w", "s">>>>, <<<<"A", "w", "s">>, <<"P", "y", "t", "h", "o", "n">>>> }

\* no keyword of the vocabulary occurs in the piece, letter case aside
HoldsNoSkill(piece) == \A w \in Range(skill_keywords) : ~ContainsNoCase(piece, w)

\* t with its pieces t[a1..a2] and t[b1..b2] exchanged, a2 < b1
SwapPieces(t, a1, a2, b1, b2) ==
    SubSeq(t, 1, a1 - 1) \o SubSeq(t, b1, b2) \o SubSeq(t, a2 + 1, b1 - 1)
        \o SubSeq(t, a1, a2) \o SubSeq(t, b2 + 1, Len(t))

\* every list extract_skills can return for t has the members of `skills`
SameSkillsAs(t, skills) == \A list \in extract_skills(t) : Range(list) = Range(skills)

\* C13 as claimed: exchanging two pieces of the text that themselves contain
\* no vocabulary keyword does not change the membership of the skill set.
C13_AnyPiecesPermuted ==
    Done =>
        \A a1 \in 1..Len(text) : \A a2 \in a1..Len(text) :
            \A b1 \in (a2 + 1)..Len(text) : \A b2 \in b1..Len(text) :
                (HoldsNoSkill(SubSeq(text, a1, a2)) /\ HoldsNoSkill(SubSeq(text, b1, b2)))
                    => SameSkillsAs(SwapPieces(text, a1, a2, b1, b2), resume_data.skills)

\* C13: extract_skills does not depend on the order of the unrelated lines:
\* exchanging two whole newline-delimited lines of the text that themselves
\* contain no vocabulary keyword does not change the membership of the
\* returned skill set.
C13_LinesPermuted ==
    Done =>
        \A s1 \in LineStarts(text) : \A s2 \in LineStarts(text) :
            (/\ s1 < s2
             /\ HoldsNoSkill(LineAt(text, s1))
             /\ HoldsNoSkill(LineAt(text, s2)))
                => SameSkillsAs(SwapPieces(text, s1, LineEnd(text, s1), s2, LineEnd(text, s2)),
                                resume_data.skills)

\* C13 witness: the lines around the one that names Python change places and
\* Python is found before and after
C13_Witness ==
    /\ Done
    /\ text = <<"x", "x", "\n", "P", "y", "t", "h", "o", "n", "\n", "a">>
    /\ SwapPieces(text, 1, 2, 11, 11) = <<"a", "\n", "P", "y", "t", "h", "o", "n", "\n", "x", "x">>
    /\ Range(resume_data.skills) = {<<"P", "y", "t", "h", "o", "n">>}
    /\ extract_skills(<<"a", "\n", "P", "y", "t", "h", "o", "n", "\n", "x", "x">>) = {<< <<"P", "y", "t", "h", "o", "n">> >>}

\* a and b are the same, letter case aside
SameNoCase(a, b) == Len(a) = Len(b) /\ ContainsNoCase(a, b)

\* the file cannot be turned into text: it is missing, its suffix is neither
\* .pdf nor .docx, or reading it fails
Undecodable(f) ==
    \/ ~f.exists
    \/ ~(SameNoCase(f.suffix, <<".", "p", "d", "f">>) \/ SameNoCase(f.suffix, <<".", "d", "o", "c", "x">>))
    \/ ~f.readable

\* the reports of a file that cannot be decoded
DecodeErrors ==
    { "[ERROR] File not found", "[ERROR] Failed to read PDF",
      "[ERROR] Failed to read DOCX", "[ERROR] File must be .pdf or .docx" }

\* C17: document-decoding errors are reported before the extraction core is
\* invoked: when the file does not exist, has a suffix other than .pdf or
\* .docx, or cannot be read, parse_resume reports an error and the run ends
\* with exit status 1; no field extractor is called, no record is produced
\* and nothing is shown.  An exit with status 1 never follows an extractor
\* call.  (The file is looked at until the caller has its record: the
\* dashboard removes it afterwards.)
C17_DecodeErrorsBeforeExtraction ==
    /\ (Undecodable(file) /\ pc # "returned") =>
           /\ called = {}
           /\ resume_data = EmptyRecord
           /\ output = None
           /\ pc \in {"start", "decode", "exited"}
           /\ pc = "exited" =>
                  /\ exit_status = Some(1)
                  /\ printed # <<>>
                  /\ printed[Len(printed)] \in DecodeErrors
                  /\ \A n \in 1..(Len(printed) - 1) : printed[n] \notin DecodeErrors
    /\ exit_status = Some(1) => (Undecodable(file) /\ called = {})
    /\ (called # {} \/ pc \in {"name", "done", "returned"}) =>
           \A n \in 1..Len(printed) : printed[n] \notin DecodeErrors

\* C17 witness: a PDF that cannot be read ends the run with status 1 after
\* the one report, with no extractor called
C17_Witness ==
    /\ pc = "exited"
    /\ file.exists
    /\ file.suffix = <<".", "P", "D", "F">>
    /\ ~file.readable
    /\ printed = << "[INFO] Parsing resume", "[ERROR] Failed to read PDF" >>
    /\ exit_status = Some(1)
    /\ called = {}
    /\ resume_data = EmptyRecord

\* C18 as claimed: what is shown or written always has the six keys name,
\* email, phone, urls, skills and education, and has the raw-text preview only
\* when the caller set the verbose flag.
C18_PreviewOnlyWhenVerbose ==
    output # None =>
        /\ (Keys \ {"raw_text"}) \subseteq DOMAIN output[1].data
        /\ "raw_text" \in DOMAIN output[1].data => args.verbose

\* the calls that have returned, each with its text and its record: the
\* earlier ones and, once it is done, the current one
Returned ==
    {[text |-> history[k].text, resume_data |-> history[k].resume_data] :
        k \in 1..Len(history)}
        \cup (IF Done THEN {[text |-> text, resume_data |-> resume_data]} ELSE {})

\* the two records are equal, their skills compared as sets
SameRecord(r1, r2) ==
    /\ \A k \in Keys \ {"skills"} : r1[k] = r2[k]
    /\ Range(r1.skills) = Range(r2.skills)

\* C12: extract_skills is deterministic as a set: two calls on the same text
\* return lists with the same members, whatever their order and whatever was
\* extracted in between.
C12_SkillsSameMembership ==
    \A a \in Returned : \A b \in Returned :
        a.text = b.text => Range(a.resume_data.skills) = Range(b.resume_data.skills)

\* C12 witness: the same text twice, the two skills in different orders
C12_Witness ==
    /\ Done
    /\ history # <<>>
    /\ text = <<"P", "y", "t", "h", "o", "n", ",", " ", "S", "Q", "L">>
    /\ history[1].text = text
    /\ history[1].resume_data.skills = << <<"P", "y", "t", "h", "o", "n">>, <<"S", "q", "l">> >>
    /\ resume_data.skills = << <<"S", "q", "l">>, <<"P", "y", "t", "h", "o", "n">> >>

\* C15: the assembler is stateless and its extractors are independent: each
\* field of the record is what its extractor returns for the text on its
\* own, and two calls with the same text return equal records (skills
\* compared as sets) whatever calls were made before or between them.
C15_StatelessAssembler ==
    /\ Done =>
           /\ resume_data.name = extract_name(text).val
           /\ resume_data.email = extract_email(text).val
           /\ resume_data.phone = extract_phone(text).val
           /\ resume_data.urls = extract_urls(text).val
           /\ resume_data.skills \in extract_skills(text)
           /\ resume_data.education = extract_education(text).val
    /\ \A a \in Returned : \A b \in Returned :
           a.text = b.text => SameRecord(a.resume_data, b.resume_data)

\* C15 witness: a text is parsed, another one after it, then the first again,
\* with the record of the first call
C15_Witness ==
    /\ Done
    /\ Len(history) = 2
    /\ history[1].text = text
    /\ history[2].text # text
    /\ history[2].resume_data.phone # resume_data.phone
    /\ resume_data.phone # None
    /\ SameRecord(history[1].resume_data, resume_data)

\* the records of the calls on text t that ran with no second instance started
AloneRecords(t) ==
    {history[k].resume_data :
        k \in {n \in 1..Len(history) : history[n].text = t /\ history[n].alone}}

\* C16: two pipeline instances that run interleaved need no coordination: the
\* record an instance produces for its text beside the other instance is the
\* record a call on that text produces when it runs alone (skills compared as
\* sets), and neither instance fails.
C16_InstancesIndependent ==
    /\ Done => \A r \in AloneRecords(text) : SameRecord(r, resume_data)
    /\ peer.pc = "done" => \A r \in AloneRecords(peer.text) : SameRecord(r, peer.resume_data)
    /\ pc # "raised" /\ peer.pc # "raised"

\* C16 witness: after two calls alone, the text of the first is parsed again
\* while the second instance, started after them, goes through another text
\* from its first entry to its last
C16_Witness ==
    /\ Done
    /\ peer.pc = "done"
    /\ peer.text # text
    /\ peer.resume_data.email # resume_data.email
    /\ Len(history) = 2
    /\ history[1].text = text
    /\ history[1].alone
    /\ history[2].text = peer.text
    /\ history[2].alone
    /\ SameRecord(history[1].resume_data, resume_data)

\* C21: keywords that contain another keyword drag it in: whenever
\* "Javascript" is in the result of extract_skills "Java" is too, and whenever
\* "Postgresql" or "Mysql" is in the result "Sql" is too.
C21_ContainedKeywords ==
    Done =>
        LET skills == Range(resume_data.skills)
        IN  /\ <<"J", "a", "v", "a", "s", "c", "r", "i", "p", "t">> \in skills => <<"J", "a", "v", "a">> \in skills
            /\ <<"P", "o", "s", "t", "g", "r", "e", "s", "q", "l">> \in skills => <<"S", "q", "l">> \in skills
            /\ <<"M", "y", "s", "q", "l">> \in skills => <<"S", "q", "l">> \in skills

\* C21 witness: the three compound keywords, run together, bring the two
\* they contain
C21_Witness ==
    /\ Done
    /\ text = <<"j", "a", "v", "a", "S", "c", "r", "i", "p", "t", "p", "o", "s", "t", "g", "r", "e", "S", "Q", "L">>
    /\ Range(resume_data.skills) = {<<"J", "a", "v", "a", "s", "c", "r", "i", "p", "t">>, <<"J", "a", "v", "a">>, <<"P", "o", "s", "t", "g", "r", "e", "s", "q", "l">>, <<"S", "q", "l">>}

\* C22: extract_skills is monotone under concatenation: however the text is
\* cut in two, every skill extract_skills returns for either part is in its
\* result for the whole.
C22_MonotoneUnderConcatenation ==
    Done =>
        \A cut \in 0..Len(text) :
            /\ \A list \in extract_skills(SubSeq(text, 1, cut)) :
                   Range(list) \subseteq Range(resume_data.skills)
            /\ \A list \in extract_skills(SubSeq(text, cut + 1, Len(text))) :
                   Range(list) \subseteq Range(resume_data.skills)

\* C22 witness: "javascript" is formed across the join of two parts, of which
\* one gives "Java" and the other nothing
C22_Witness ==
    /\ Done
    /\ text = <<"j", "a", "v", "a", "s", "c", "r", "i", "p", "t", "S", "Q", "L">>
    /\ extract_skills(SubSeq(text, 1, 4)) = {<< <<"J", "a", "v", "a">> >>}
    /\ \A list \in extract_skills(SubSeq(text, 5, Len(text))) : Range(list) = {<<"S", "q", "l">>}
    /\ Range(resume_data.skills) = {<<"J", "a", "v", "a">>, <<"J", "a", "v", "a", "s", "c", "r", "i", "p", "t">>, <<"S", "q", "l">>}

\* the handling of a 'Parse Resume' click is over: the record was shown, or
\* parse_resume ended the run
UiFinished == caller = "resume_parser_ui" /\ pc \in {"returned", "exited", "raised"}

\* C24 as claimed: after resume_parser_ui has handled a 'Parse Resume' click,
\* whether parsing succeeded, raised or ended through parse_resume's error
\* exit, the temporary file that holds the upload no longer exists.
C24_TempFileDeleted == UiFinished => ~file.exists

\* the image made from the session's own input
OwnImage(s) == Some(QrImage(qr.sessions[s].data, qr.sessions[s].size))

\* C23 as claimed: in the QR generator each session sees its own result:
\* under every interleaving of two sessions, the image a session displays and
\* the one it offers for download are generated from that session's input.
C23_SessionSeesOwnQr ==
    \A s \in Sessions :
        /\ qr.sessions[s].shown # None => qr.sessions[s].shown = OwnImage(s)
        /\ qr.sessions[s].download # None => qr.sessions[s].download = OwnImage(s)

\* the call of get_chrome_history has ended, by a return or by sys.exit
ChromeEnded == chrome.pc \in {"returned", "exited"}

\* C25 as claimed: get_chrome_history never leaves its temporary copy of the
\* database behind: however the call ends once the file was created (rows
\* returned, copy failure, sqlite error, any other error and exit status 1),
\* the file has been removed.
C25_TempCopyRemoved == ChromeEnded => chrome.temp # "exists"

\* the first pattern of the list, in order, that matches the url: 0 if none
FirstPattern(t) ==
    IF \A k \in 1..NumPatterns : SearchPattern(k, t) = None THEN 0
    ELSE CHOOSE k \in 1..NumPatterns :
             /\ SearchPattern(k, t) # None
             /\ \A j \in 1..(k - 1) : SearchPattern(j, t) = None

\* C26 as claimed: extract_video_id returns a video ID or fails: when it
\* returns, the value is the non-empty capture of the first pattern, in list
\* order, that matches the input; otherwise it has printed an error and
\* exited with status 1; it never returns an empty ID.
C26_ReturnsIdOrFails ==
    /\ video.pc = "returned" =>
           /\ FirstPattern(video.url) # 0
           /\ video.result = SearchPattern(FirstPattern(video.url), video.url)
           /\ video.result # Some(<<>>)
    /\ video.pc = "exited" =>
           /\ FirstPattern(video.url) = 0
           /\ video.printed # <<>>
           /\ video.exit_status = Some(1)

\* C27 as claimed: format_table produces a rectangular table with one
\* alignment per column: whatever headers, rows and alignment string went
\* through csv_to_markdown or json_to_markdown, the separator row of the
\* table returned has as many cells as the header row, and all lines have
\* the same number of cells and the same length.
C27_RectangularTable ==
    table.pc = "returned" =>
        LET lines == table.result[1]
        IN  /\ Len(lines[2]) = Len(lines[1])
            /\ \A n \in 1..Len(lines) :
                   /\ Len(lines[n]) = Len(lines[1])
                   /\ Len(LineText(lines[n])) = Len(LineText(lines[1]))

\* the modules the import statements of the code import: a statement stands
\* at the start of a line, after its indentation, and names its module
\* right after the keyword
StatementModules(t) ==
    LET starts == {1} \cup {p + 1 : p \in {q \in 1..Len(t) : t[q] = "\n"}}
        first(p) == p + RunLen({" ", "\t"}, t, p, 0 - 1)
    IN  {ImportGroup(t, first(p)) : p \in {q \in starts : ImportEnd(t, first(q)) # 0}}

\* C28 as claimed: the result of extract_dependencies is sorted and
\* duplicate-free, holds no module of the standard-library exclusion set,
\* gives PIL, cv2, bs4 and docx by their package names, and holds only
\* modules being imported: no name imported from a module and no word that
\* follows 'import' or 'from' in a comment or a string.
C28_OnlyImportedModules ==
    deps.pc = "returned" =>
        LET result == deps.result[1]
        IN  /\ \A i \in 1..Len(result), j \in 1..Len(result) :
                   i < j => StrLess(result[i], result[j])
            /\ \A i \in 1..Len(result) :
                   /\ result[i] \notin stdlib
                   /\ result[i] \notin { <<"P", "I", "L">>, <<"c", "v", "2">>, <<"b", "s", "4">>, <<"d", "o", "c", "x">> }
                   /\ result[i] \in {package_map(m) : m \in StatementModules(deps.code)}

=============================================================================
